---- MODULE Spec2Model ----
(***************************************************************************)
(* Analyzer registry and module dispatch of the Zeek Spicy plugin          *)
(* (src/plugin/src/plugin.cc): the module registry, the three descriptor   *)
(* tables indexed by host-assigned tag type, the two-phase registration    *)
(* protocol and the toggle controller, together with the part of the host  *)
(* (component managers, port table, event queue) those operations drive.   *)
(***************************************************************************)
EXTENDS Integers, Sequences, FiniteSets, TLC

VARIABLES
    phase,                       \* "pre": before InitPostScript; "post": after it; "fatal": process aborted;
                                 \* "exception": an exception left the plugin uncaught
    fatal_reason,                \* which fatal path, or exception, ended the process ("" while running)
    analyzer_mgr,                \* host protocol components; index = tag type; [name, enabled]
    file_mgr,                    \* host file components; index = tag type; [name, enabled]
    packet_mgr,                  \* host packet components; index = tag type; [name, enabled]
    _protocol_analyzers_by_type, \* std::vector<ProtocolAnalyzerInfo>; vector[i] is element i+1
    _file_analyzers_by_type,     \* std::vector<FileAnalyzerInfo>
    _packet_analyzers_by_type,   \* std::vector<PacketAnalyzerInfo>
    _libraries,                  \* module registry: set of canonical paths
    opened,                      \* canonical path -> number of Library::open() calls made on it
    port_registry,               \* host: set of <<tag type, transport, port>> bindings
    event_queue,                 \* host: queued spicy_analyzer_for_mime_type events <<tag type, mime>>
    mime_bindings,               \* host: set of <<tag type, mime>> bindings its handler has made
    _events,                     \* event identifier table: the names registered (name -> the host ID of that name)
    zeek_ids,                    \* host identifiers by full name: [exists, exported, type, installs]
    event_handlers,              \* host event registry: the names that have a handler
    ZEEK_VERSION_NUMBER,         \* host version the plugin was compiled for (fixes the #if branches)
    last_call,                   \* the plugin entry point entered last, with its arguments
    round_trip,                  \* history: a toggle(d, true) and the toggle(d, false) right after it
    ret                          \* outcome of that call ("true"/"false" for a toggle)

vars ==
    <<phase, fatal_reason, analyzer_mgr, file_mgr, packet_mgr,
      _protocol_analyzers_by_type, _file_analyzers_by_type, _packet_analyzers_by_type,
      _libraries, opened, port_registry, event_queue, mime_bindings, _events, zeek_ids,
      event_handlers, ZEEK_VERSION_NUMBER, last_call, round_trip, ret>>

(***************************************************************************)
(* Bounds of the model.                                                    *)
(***************************************************************************)
MaxTagProbe == 3    \* largest tag type a toggle call is tried with
MaxOpens == 2       \* Library::open() calls counted per canonical path
MaxHostType == 4    \* largest tag type the host hands out to a component
MaxInstalls == 2    \* install_ID calls counted per event name

(***************************************************************************)
(* Values.                                                                 *)
(***************************************************************************)
NoTag == 0          \* Tag(): the unset tag, type 0, converts to false
NoParser == 0       \* nullptr parser; a resolved parser is its index in Parsers

Min(S) == CHOOSE x \in S : \A y \in S : x <= y

\* spicy::rt::parsers(): what the runtime knows once hilti::rt::init() has run.
Parsers ==
    << [name |-> "P1",  ports |-> << [port |-> <<443, "TCP">>, direction |-> "Both"],
                                     [port |-> <<8443, "TCP">>, direction |-> "Originator"] >>,
        mime_types |-> << "text/p1" >>],
       [name |-> "P10", ports |-> << [port |-> <<53, "UDP">>, direction |-> "Responder"] >>,
        mime_types |-> << >>] >>

(***************************************************************************)
(* std::vector, indexed from 0: element i of the vector is v[i + 1].       *)
(***************************************************************************)
VecSize(v) == Len(v)

VecAt(v, i) == v[i + 1]

\* std::vector::resize(n): truncates to n elements, or appends
\* value-initialized elements up to n.
VecResize(v, n, dflt) ==
    IF n <= Len(v) THEN SubSeq(v, 1, n)
    ELSE v \o [k \in 1..(n - Len(v)) |-> dflt]

VecStore(v, i, x) == [v EXCEPT ![i + 1] = x]

(***************************************************************************)
(* Descriptors, default-constructed: type 0 marks a slot as not set.       *)
(***************************************************************************)
DefaultProtocolAnalyzerInfo ==
    [type |-> 0, name_analyzer |-> "", name_parser_orig |-> "", name_parser_resp |-> "",
     name_replaces |-> "", protocol |-> "Undef", ports |-> << >>,
     replaces |-> NoTag, parser_orig |-> NoParser, parser_resp |-> NoParser]

DefaultFileAnalyzerInfo ==
    [type |-> 0, name_analyzer |-> "", name_parser |-> "", name_replaces |-> "",
     mime_types |-> << >>, replaces |-> NoTag, parser |-> NoParser]

DefaultPacketAnalyzerInfo ==
    [type |-> 0, name_analyzer |-> "", name_parser |-> "", parser |-> NoParser]

(***************************************************************************)
(* The host's component managers.  A manager is the sequence of its        *)
(* components; a component's tag type is its position, assigned when the   *)
(* component is initialized.  Type 0 is the unset tag.                     *)
(***************************************************************************)
\* Manager::GetAnalyzerTag / GetComponentTag / Lookup(name): the tag of the
\* component of that name, the unset tag when there is none.
GetAnalyzerTag(mgr, name) ==
    IF \E t \in 1..Len(mgr) : mgr[t].name = name
    THEN Min({t \in 1..Len(mgr) : mgr[t].name = name})
    ELSE NoTag

\* Manager::Lookup(tag): whether the host has a component with that tag.
HasComponent(mgr, tag) == tag \in 1..Len(mgr)

\* EnableAnalyzer / DisableAnalyzer / Component::SetEnabled: no effect on a
\* tag the host has no component for.
SetEnabled(mgr, tag, on) ==
    IF HasComponent(mgr, tag) THEN [mgr EXCEPT ![tag].enabled = on] ELSE mgr

\* AddComponent(c); c->Initialize(): the component gets the next tag type
\* of its kind and starts enabled.
AddComponent(mgr, name) == Append(mgr, [name |-> name, enabled |-> TRUE])

ComponentNames(mgr) == {mgr[t].name : t \in 1..Len(mgr)}

(***************************************************************************)
(* Parser lookup (the find_parser lambda of InitPostScript).               *)
(***************************************************************************)
\* find_parser without the name comparison: any non-empty name gets the
\* first parser of the runtime.
find_parser_first(parser) ==
    IF parser = "" THEN [fatal |-> FALSE, p |-> NoParser]
    ELSE IF Len(Parsers) > 0 THEN [fatal |-> FALSE, p |-> 1]
    ELSE [fatal |-> TRUE, p |-> NoParser]

\* find_parser returning nullptr for an unknown name instead of aborting.
find_parser_lenient(parser) ==
    IF parser # "" /\ \E k \in 1..Len(Parsers) : Parsers[k].name = parser
    THEN [fatal |-> FALSE, p |-> Min({k \in 1..Len(Parsers) : Parsers[k].name = parser})]
    ELSE [fatal |-> FALSE, p |-> NoParser]

\* find_parser: nullptr for an empty name, the first parser of exactly that
\* name, a fatal internalError when there is none.
find_parser(parser) ==
    IF parser = "" THEN [fatal |-> FALSE, p |-> NoParser]
    ELSE IF \E k \in 1..Len(Parsers) : Parsers[k].name = parser
         THEN [fatal |-> FALSE, p |-> Min({k \in 1..Len(Parsers) : Parsers[k].name = parser})]
         ELSE [fatal |-> TRUE, p |-> NoParser]

(***************************************************************************)
(* Phase 1: registration.  Each operator is the whole body of the method   *)
(* on the host manager and the descriptor table it touches; `stored` says  *)
(* whether the call got as far as storing its descriptor.                  *)
(***************************************************************************)
\* registerProtocolAnalyzer recording the replaced analyzer without
\* disabling it.
registerProtocolAnalyzer_no_disable(mgr, tab, c) ==
    LET tag == IF c.replaces # "" THEN GetAnalyzerTag(mgr, c.replaces) ELSE NoTag
    IN  IF c.proto \notin {"TCP", "UDP"}
        THEN [mgr |-> mgr, tab |-> tab, stored |-> FALSE]
        ELSE LET mgr2 == AddComponent(mgr, c.name)
                 type == GetAnalyzerTag(mgr2, c.name)
                 info == [type |-> type, name_analyzer |-> c.name,
                          name_parser_orig |-> c.parser_orig,
                          name_parser_resp |-> c.parser_resp,
                          name_replaces |-> c.replaces, protocol |-> c.proto,
                          ports |-> c.ports, replaces |-> tag,
                          parser_orig |-> NoParser, parser_resp |-> NoParser]
             IN  [mgr |-> mgr2,
                  tab |-> VecStore(VecResize(tab, type + 1, DefaultProtocolAnalyzerInfo), type, info),
                  stored |-> TRUE]

\* registerProtocolAnalyzer giving up when the analyzer to replace does
\* not exist.
registerProtocolAnalyzer_needs_target(mgr, tab, c) ==
    LET tag == IF c.replaces # "" THEN GetAnalyzerTag(mgr, c.replaces) ELSE NoTag
        mgr1 == IF tag # NoTag THEN SetEnabled(mgr, tag, FALSE) ELSE mgr
    IN  IF c.proto \notin {"TCP", "UDP"} \/ (c.replaces # "" /\ tag = NoTag)
        THEN [mgr |-> mgr1, tab |-> tab, stored |-> FALSE]
        ELSE LET mgr2 == AddComponent(mgr1, c.name)
                 type == GetAnalyzerTag(mgr2, c.name)
                 info == [type |-> type, name_analyzer |-> c.name,
                          name_parser_orig |-> c.parser_orig,
                          name_parser_resp |-> c.parser_resp,
                          name_replaces |-> c.replaces, protocol |-> c.proto,
                          ports |-> c.ports, replaces |-> tag,
                          parser_orig |-> NoParser, parser_resp |-> NoParser]
             IN  [mgr |-> mgr2,
                  tab |-> VecStore(VecResize(tab, type + 1, DefaultProtocolAnalyzerInfo), type, info),
                  stored |-> TRUE]

\* registerProtocolAnalyzer looking its parsers up at registration time.
registerProtocolAnalyzer_eager(mgr, tab, c) ==
    LET tag == IF c.replaces # "" THEN GetAnalyzerTag(mgr, c.replaces) ELSE NoTag
        mgr1 == IF tag # NoTag THEN SetEnabled(mgr, tag, FALSE) ELSE mgr
    IN  IF c.proto \notin {"TCP", "UDP"}
        THEN [mgr |-> mgr1, tab |-> tab, stored |-> FALSE]
        ELSE LET mgr2 == AddComponent(mgr1, c.name)
                 type == GetAnalyzerTag(mgr2, c.name)
                 info == [type |-> type, name_analyzer |-> c.name,
                          name_parser_orig |-> c.parser_orig,
                          name_parser_resp |-> c.parser_resp,
                          name_replaces |-> c.replaces, protocol |-> c.proto,
                          ports |-> c.ports, replaces |-> tag,
                          parser_orig |-> find_parser(c.parser_orig).p,
                          parser_resp |-> find_parser(c.parser_resp).p]
             IN  [mgr |-> mgr2,
                  tab |-> VecStore(VecResize(tab, type + 1, DefaultProtocolAnalyzerInfo), type, info),
                  stored |-> TRUE]

\* Plugin::registerProtocolAnalyzer(name, proto, ports, parser_orig, parser_resp, replaces)
registerProtocolAnalyzer(mgr, tab, c) ==
    LET tag == IF c.replaces # "" THEN GetAnalyzerTag(mgr, c.replaces) ELSE NoTag
        mgr1 == IF tag # NoTag THEN SetEnabled(mgr, tag, FALSE) ELSE mgr
    IN  IF c.proto \notin {"TCP", "UDP"}
        THEN [mgr |-> mgr1, tab |-> tab, stored |-> FALSE]
        ELSE LET mgr2 == AddComponent(mgr1, c.name)
                 type == GetAnalyzerTag(mgr2, c.name)
                 info == [type |-> type, name_analyzer |-> c.name,
                          name_parser_orig |-> c.parser_orig,
                          name_parser_resp |-> c.parser_resp,
                          name_replaces |-> c.replaces, protocol |-> c.proto,
                          ports |-> c.ports, replaces |-> tag,
                          parser_orig |-> NoParser, parser_resp |-> NoParser]
             IN  [mgr |-> mgr2,
                  tab |-> VecStore(VecResize(tab, type + 1, DefaultProtocolAnalyzerInfo), type, info),
                  stored |-> TRUE]

\* Plugin::registerFileAnalyzer(name, mime_types, parser, replaces); the
\* replaces lookup is compiled in only for hosts from 4.1 on.
registerFileAnalyzer(mgr, tab, c, version) ==
    LET tag == IF version >= 40100 /\ c.replaces # ""
               THEN GetAnalyzerTag(mgr, c.replaces) ELSE NoTag
        mgr1 == IF tag # NoTag THEN SetEnabled(mgr, tag, FALSE) ELSE mgr
        mgr2 == AddComponent(mgr1, c.name)
        type == GetAnalyzerTag(mgr2, c.name)
        info == [type |-> type, name_analyzer |-> c.name, name_parser |-> c.parser,
                 name_replaces |-> c.replaces, mime_types |-> c.mime_types,
                 replaces |-> tag, parser |-> NoParser]
    IN  [mgr |-> mgr2,
         tab |-> VecStore(VecResize(tab, type + 1, DefaultFileAnalyzerInfo), type, info),
         stored |-> TRUE]

\* Plugin::registerPacketAnalyzer(name, parser)
registerPacketAnalyzer(mgr, tab, c) ==
    LET mgr1 == AddComponent(mgr, c.name)
        type == GetAnalyzerTag(mgr1, c.name)
        info == [type |-> type, name_analyzer |-> c.name, name_parser |-> c.parser,
                 parser |-> NoParser]
    IN  [mgr |-> mgr1,
         tab |-> VecStore(VecResize(tab, type + 1, DefaultPacketAnalyzerInfo), type, info),
         stored |-> TRUE]

\* The host's bookkeeping when it hands out the tag type `type` for a new
\* component instead of the next one in line: the manager is filled up to
\* that type with entries for types not handed out.
FreeComponent == [name |-> "", enabled |-> FALSE]

AddComponentAt(mgr, name, type) ==
    LET grown == IF type <= Len(mgr) THEN mgr
                 ELSE mgr \o [i \in 1..(type - Len(mgr)) |-> FreeComponent]
    IN  [grown EXCEPT ![type] = [name |-> name, enabled |-> TRUE]]

\* registerProtocolAnalyzer and registerFileAnalyzer when the component's
\* tag, read back at plugin.cc:124 and :170, has the type `type`.
registerProtocolAnalyzerAt(mgr, tab, c, type) ==
    LET tag == IF c.replaces # "" THEN GetAnalyzerTag(mgr, c.replaces) ELSE NoTag
        mgr1 == IF tag # NoTag THEN SetEnabled(mgr, tag, FALSE) ELSE mgr
    IN  IF c.proto \notin {"TCP", "UDP"}
        THEN [mgr |-> mgr1, tab |-> tab, stored |-> FALSE]
        ELSE LET info == [type |-> type, name_analyzer |-> c.name,
                          name_parser_orig |-> c.parser_orig,
                          name_parser_resp |-> c.parser_resp,
                          name_replaces |-> c.replaces, protocol |-> c.proto,
                          ports |-> c.ports, replaces |-> tag,
                          parser_orig |-> NoParser, parser_resp |-> NoParser]
             IN  [mgr |-> AddComponentAt(mgr1, c.name, type),
                  tab |-> VecStore(VecResize(tab, type + 1, DefaultProtocolAnalyzerInfo),
                                   type, info),
                  stored |-> TRUE]

registerFileAnalyzerAt(mgr, tab, c, version, type) ==
    LET tag == IF version >= 40100 /\ c.replaces # ""
               THEN GetAnalyzerTag(mgr, c.replaces) ELSE NoTag
        mgr1 == IF tag # NoTag THEN SetEnabled(mgr, tag, FALSE) ELSE mgr
        info == [type |-> type, name_analyzer |-> c.name, name_parser |-> c.parser,
                 name_replaces |-> c.replaces, mime_types |-> c.mime_types,
                 replaces |-> tag, parser |-> NoParser]
    IN  [mgr |-> AddComponentAt(mgr1, c.name, type),
         tab |-> VecStore(VecResize(tab, type + 1, DefaultFileAnalyzerInfo), type, info),
         stored |-> TRUE]

(***************************************************************************)
(* Toggle controller.  Each operator gives the value returned and the      *)
(* host manager after the call.                                            *)
(***************************************************************************)
\* toggleAnalyzer that disables the replaced analyzer on enable but does
\* not enable it again on disable.
toggleProtocolAnalyzer_one_way(mgr, tab, type, enable) ==
    IF type >= VecSize(tab) THEN [ret |-> FALSE, mgr |-> mgr]
    ELSE LET analyzer == VecAt(tab, type) IN
         IF analyzer.type = 0 THEN [ret |-> FALSE, mgr |-> mgr]
         ELSE LET mgr1 == SetEnabled(mgr, type, enable)
                  mgr2 == IF analyzer.replaces # NoTag /\ enable
                          THEN SetEnabled(mgr1, analyzer.replaces, FALSE)
                          ELSE mgr1
              IN  [ret |-> TRUE, mgr |-> mgr2]

\* toggleAnalyzer that gives the replaced analyzer the same state as the
\* target instead of the opposite one.
toggleProtocolAnalyzer_same_way(mgr, tab, type, enable) ==
    IF type >= VecSize(tab) THEN [ret |-> FALSE, mgr |-> mgr]
    ELSE LET analyzer == VecAt(tab, type) IN
         IF analyzer.type = 0 THEN [ret |-> FALSE, mgr |-> mgr]
         ELSE LET mgr1 == SetEnabled(mgr, type, enable)
                  mgr2 == IF analyzer.replaces # NoTag
                          THEN SetEnabled(mgr1, analyzer.replaces, enable)
                          ELSE mgr1
              IN  [ret |-> TRUE, mgr |-> mgr2]

\* toggleAnalyzer without the test for the unset sentinel.
toggleProtocolAnalyzer_no_sentinel(mgr, tab, type, enable) ==
    IF type >= VecSize(tab) THEN [ret |-> FALSE, mgr |-> mgr]
    ELSE LET analyzer == VecAt(tab, type)
             mgr1 == SetEnabled(mgr, type, enable)
             mgr2 == IF analyzer.replaces # NoTag
                     THEN SetEnabled(mgr1, analyzer.replaces, ~enable)
                     ELSE mgr1
         IN  [ret |-> TRUE, mgr |-> mgr2]

\* toggleAnalyzer that carries the change on to the analyzer its replaced
\* analyzer replaces in turn.
toggleProtocolAnalyzer_chained(mgr, tab, type, enable) ==
    IF type >= VecSize(tab) THEN [ret |-> FALSE, mgr |-> mgr]
    ELSE LET analyzer == VecAt(tab, type) IN
         IF analyzer.type = 0 THEN [ret |-> FALSE, mgr |-> mgr]
         ELSE LET r == analyzer.replaces
                  mgr1 == SetEnabled(mgr, type, enable)
                  mgr2 == IF r # NoTag THEN SetEnabled(mgr1, r, ~enable) ELSE mgr1
                  mgr3 == IF r # NoTag /\ r < VecSize(tab) /\ VecAt(tab, r).replaces # NoTag
                          THEN SetEnabled(mgr2, VecAt(tab, r).replaces, enable)
                          ELSE mgr2
              IN  [ret |-> TRUE, mgr |-> mgr3]

\* Plugin::toggleAnalyzer(const analyzer::Tag&, bool)
toggleProtocolAnalyzer(mgr, tab, type, enable) ==
    IF type >= VecSize(tab) THEN [ret |-> FALSE, mgr |-> mgr]
    ELSE LET analyzer == VecAt(tab, type) IN
         IF analyzer.type = 0 THEN [ret |-> FALSE, mgr |-> mgr]
         ELSE LET mgr1 == SetEnabled(mgr, type, enable)
                  mgr2 == IF analyzer.replaces # NoTag
                          THEN SetEnabled(mgr1, analyzer.replaces, ~enable)
                          ELSE mgr1
              IN  [ret |-> TRUE, mgr |-> mgr2]

\* Plugin::toggleAnalyzer(const file_analysis::Tag&, bool); `fatal` is the
\* internalError taken when the host has no component for the tag.
toggleFileAnalyzer(mgr, tab, type, enable, version) ==
    IF type >= VecSize(tab) THEN [ret |-> FALSE, mgr |-> mgr, fatal |-> FALSE]
    ELSE LET analyzer == VecAt(tab, type) IN
         IF analyzer.type = 0 THEN [ret |-> FALSE, mgr |-> mgr, fatal |-> FALSE]
         ELSE IF version < 40100 THEN [ret |-> FALSE, mgr |-> mgr, fatal |-> FALSE]
         ELSE IF ~HasComponent(mgr, type) THEN [ret |-> FALSE, mgr |-> mgr, fatal |-> TRUE]
         ELSE LET has_replaces == analyzer.replaces # NoTag
                                  /\ HasComponent(mgr, analyzer.replaces)
                  mgr1 == SetEnabled(mgr, type, enable)
                  mgr2 == IF has_replaces
                          THEN SetEnabled(mgr1, analyzer.replaces, ~enable)
                          ELSE mgr1
              IN  [ret |-> TRUE, mgr |-> mgr2, fatal |-> FALSE]

\* Plugin::toggleAnalyzer(const packet_analysis::Tag&, bool): the bounds
\* test is against the packet table, the element read is the protocol
\* table's; reads names the table an element is read of ("" for none),
\* out_of_bounds says the read is past the end of that table, where the
\* behaviour of the call is undefined.
togglePacketAnalyzer(ptab, ktab, type, enable) ==
    IF type >= VecSize(ktab)
    THEN [ret |-> FALSE, out_of_bounds |-> FALSE, reads |-> ""]
    ELSE [ret |-> FALSE, out_of_bounds |-> type >= VecSize(ptab),
          reads |-> "_protocol_analyzers_by_type"]

\* Plugin::toggleAnalyzer(EnumVal*, bool).  val is the tag value: the enum
\* type it belongs to (kind) and its number (type).  A manager's Lookup
\* finds the component whose tag has the value's number; the branch for
\* packet tag values asks the file manager and so calls the file toggle.
toggleEnumVal(amgr, fmgr, ptab, ftab, val, enable, version) ==
    IF val.kind = "protocol"
    THEN IF HasComponent(amgr, val.type)
         THEN LET r == toggleProtocolAnalyzer(amgr, ptab, val.type, enable)
              IN  [ret |-> r.ret, amgr |-> r.mgr, fmgr |-> fmgr, fatal |-> FALSE]
         ELSE [ret |-> FALSE, amgr |-> amgr, fmgr |-> fmgr, fatal |-> FALSE]
    ELSE IF val.kind = "file"
    THEN IF HasComponent(fmgr, val.type)
         THEN LET r == toggleFileAnalyzer(fmgr, ftab, val.type, enable, version)
              IN  [ret |-> r.ret, amgr |-> amgr, fmgr |-> r.mgr, fatal |-> r.fatal]
         ELSE [ret |-> FALSE, amgr |-> amgr, fmgr |-> fmgr, fatal |-> FALSE]
    ELSE IF val.kind = "packet"
    THEN IF HasComponent(fmgr, val.type)
         THEN LET r == toggleFileAnalyzer(fmgr, ftab, val.type, enable, version)
              IN  [ret |-> r.ret, amgr |-> amgr, fmgr |-> r.mgr, fatal |-> r.fatal]
         ELSE [ret |-> FALSE, amgr |-> amgr, fmgr |-> fmgr, fatal |-> FALSE]
    ELSE [ret |-> FALSE, amgr |-> amgr, fmgr |-> fmgr, fatal |-> FALSE]

(***************************************************************************)
(* Phase 2: Plugin::InitPostScript.  The loops run over a record `ps` of   *)
(* the state they change; ps.fatal names the internalError that ended the  *)
(* process ("" while it runs), and nothing after it is executed.           *)
(***************************************************************************)
\* transport_protocol(port): the host's transport of a port, "" for the
\* internalError of the default branch.
transport_protocol(port) ==
    CASE port[2] = "TCP" -> "TRANSPORT_TCP"
      [] port[2] = "UDP" -> "TRANSPORT_UDP"
      [] port[2] = "ICMP" -> "TRANSPORT_ICMP"
      [] OTHER -> ""

\* for ( auto port : ports ) RegisterAnalyzerForPort(tag, transport_protocol(port), port.port())
RECURSIVE RegisterPorts(_, _, _)
RegisterPorts(ps, tag, ports) ==
    IF ps.fatal # "" \/ ports = << >> THEN ps
    ELSE LET port == Head(ports)
             tp == transport_protocol(port)
         IN  IF tp = "" THEN [ps EXCEPT !.fatal = "unsupported transport protocol"]
             ELSE RegisterPorts([ps EXCEPT !.ports = @ \cup {<<tag, tp, port[1]>>}],
                                tag, Tail(ports))

\* The ports of a parser whatever their direction.
ResponderPorts_any_direction(parser_ports) ==
    [k \in 1..Len(parser_ports) |-> parser_ports[k].port]

\* The ports a parser declares for the responder side or for both sides.
ResponderPorts(parser_ports) ==
    LET keep(e) == e.direction \in {"Both", "Responder"}
        pick == SelectSeq(parser_ports, keep)
    IN  [k \in 1..Len(pick) |-> pick[k].port]

\* One iteration of the loop over _protocol_analyzers_by_type, on element i.
InitProtocolAnalyzer(ps, i) ==
    LET p == ps.ptab[i]
        fo == find_parser(p.name_parser_orig)
        fr == find_parser(p.name_parser_resp)
        tag == GetAnalyzerTag(ps.amgr, p.name_analyzer)
    IN  IF p.type = 0 THEN ps
        ELSE IF fo.fatal THEN [ps EXCEPT !.fatal = "unknown parser"]
        ELSE IF fr.fatal
             THEN [ps EXCEPT !.fatal = "unknown parser", !.ptab[i].parser_orig = fo.p]
        ELSE LET ps1 == [ps EXCEPT !.ptab[i].parser_orig = fo.p,
                                   !.ptab[i].parser_resp = fr.p]
             IN  IF tag = NoTag THEN [ps1 EXCEPT !.fatal = "cannot get analyzer tag"]
                 ELSE LET ps2 == RegisterPorts(ps1, tag, p.ports)
                      IN  IF fr.p = NoParser THEN ps2
                          ELSE RegisterPorts(ps2, tag, ResponderPorts(Parsers[fr.p].ports))

\* register_analyzer_for_mime_type for each MIME type of a list, in order.
EnqueueMimeTypes(queue, tag, mts) ==
    queue \o [k \in 1..Len(mts) |-> <<tag, mts[k]>>]

\* The file loop's iteration with the parser's MIME types queued first.
InitFileAnalyzer_parser_first(ps, i) ==
    LET p == ps.ftab[i]
        f == find_parser(p.name_parser)
        tag == GetAnalyzerTag(ps.fmgr, p.name_analyzer)
    IN  IF p.type = 0 THEN ps
        ELSE IF f.fatal THEN [ps EXCEPT !.fatal = "unknown parser"]
        ELSE LET ps1 == [ps EXCEPT !.ftab[i].parser = f.p]
             IN  IF tag = NoTag THEN [ps1 EXCEPT !.fatal = "cannot get analyzer tag"]
                 ELSE LET q1 == IF f.p = NoParser THEN ps1.queue
                                ELSE EnqueueMimeTypes(ps1.queue, tag, Parsers[f.p].mime_types)
                      IN  [ps1 EXCEPT !.queue = EnqueueMimeTypes(q1, tag, p.mime_types)]

\* One iteration of the loop over _file_analyzers_by_type, on element i.
InitFileAnalyzer(ps, i) ==
    LET p == ps.ftab[i]
        f == find_parser(p.name_parser)
        tag == GetAnalyzerTag(ps.fmgr, p.name_analyzer)
    IN  IF p.type = 0 THEN ps
        ELSE IF f.fatal THEN [ps EXCEPT !.fatal = "unknown parser"]
        ELSE LET ps1 == [ps EXCEPT !.ftab[i].parser = f.p]
             IN  IF tag = NoTag THEN [ps1 EXCEPT !.fatal = "cannot get analyzer tag"]
                 ELSE LET q1 == EnqueueMimeTypes(ps1.queue, tag, p.mime_types)
                          q2 == IF f.p = NoParser THEN q1
                                ELSE EnqueueMimeTypes(q1, tag, Parsers[f.p].mime_types)
                      IN  [ps1 EXCEPT !.queue = q2]

\* One iteration of the loop over _packet_analyzers_by_type, on element i.
InitPacketAnalyzer(ps, i) ==
    LET p == ps.ktab[i]
        f == find_parser(p.name_parser)
    IN  IF p.type = 0 THEN ps
        ELSE IF f.fatal THEN [ps EXCEPT !.fatal = "unknown parser"]
        ELSE [ps EXCEPT !.ktab[i].parser = f.p]

\* The three loops, each from element i on, stopping at the first fatal error.
RECURSIVE ProtocolLoop(_, _)
ProtocolLoop(ps, i) ==
    IF ps.fatal # "" \/ i > Len(ps.ptab) THEN ps
    ELSE ProtocolLoop(InitProtocolAnalyzer(ps, i), i + 1)

RECURSIVE FileLoop(_, _)
FileLoop(ps, i) ==
    IF ps.fatal # "" \/ i > Len(ps.ftab) THEN ps
    ELSE FileLoop(InitFileAnalyzer(ps, i), i + 1)

RECURSIVE PacketLoop(_, _)
PacketLoop(ps, i) ==
    IF ps.fatal # "" \/ i > Len(ps.ktab) THEN ps
    ELSE PacketLoop(InitPacketAnalyzer(ps, i), i + 1)

\* The dummy-type loop without its test: every registered event gets the dummy type.
SetDummyTypes_untested(ids, events) ==
    [n \in DOMAIN ids |->
        IF n \in events THEN [ids[n] EXCEPT !.type = "dummy"] ELSE ids[n]]

\* for ( const auto& [name, id] : _events ) if ( ! ID_GetType(id) ) id->SetType(dummy)
SetDummyTypes(ids, events) ==
    [n \in DOMAIN ids |->
        IF n \in events /\ ids[n].type = "none" THEN [ids[n] EXCEPT !.type = "dummy"]
        ELSE ids[n]]

(***************************************************************************)
(* Module loader.  A path is the sequence of its components below the      *)
(* root; the file system is fixed: directories, regular files and          *)
(* symbolic links (each to a canonical target, which may not exist).       *)
(***************************************************************************)
FsDirs == { << >>, <<"x">>, <<"x", "sub">>, <<"x", "d.hlto">>, <<"y">>, <<"z">> }

FsFiles ==
    { <<"x", "a.hlto">>, <<"x", "notes.txt">>, <<"x", "sub", "b.hlto">>,
      <<"x", "sub", ".hlto">>, <<"y", "c.hlto">>, <<"y", "e.hlto.bak">>,
      <<"z", "bad.hlto">> }

FsLinks == { <<"y", "a2.hlto">>, <<"y", "dangling.hlto">> }

LinkTarget(p) == IF p = <<"y", "a2.hlto">> THEN <<"x", "a.hlto">> ELSE <<"x", "gone.hlto">>

\* hilti::rt::filesystem::canonical(path): "." and ".." removed and links
\* followed, component by component from the resolved prefix cur; fails
\* when a component does not exist or a file is used as a directory.
RECURSIVE Resolve(_, _)
Resolve(cur, rest) ==
    IF rest = << >> THEN [ok |-> TRUE, path |-> cur]
    ELSE IF cur \notin FsDirs THEN [ok |-> FALSE, path |-> << >>]
    ELSE LET c == Head(rest)
             next == Append(cur, c)
         IN  IF c = "." THEN Resolve(cur, Tail(rest))
             ELSE IF c = ".."
                  THEN Resolve(IF cur = << >> THEN cur ELSE SubSeq(cur, 1, Len(cur) - 1),
                               Tail(rest))
             ELSE IF next \in FsLinks
                  THEN IF LinkTarget(next) \in FsDirs \cup FsFiles
                       THEN Resolve(LinkTarget(next), Tail(rest))
                       ELSE [ok |-> FALSE, path |-> << >>]
             ELSE IF next \in FsDirs \cup FsFiles THEN Resolve(next, Tail(rest))
             ELSE [ok |-> FALSE, path |-> << >>]

canonical(path) == Resolve(<< >>, path)

\* Library::open(): whether the file maps as a module.
OpensAsModule(file) == file # <<"z", "bad.hlto">>

\* The registration calls a module's pre-init code makes when it is opened.
ModuleCode(file) ==
    IF file = <<"x", "a.hlto">>
    THEN << [kind |-> "protocol",
             c |-> [name |-> "FOO", proto |-> "TCP", ports |-> << <<80, "TCP">> >>,
                    parser_orig |-> "P1", parser_resp |-> "P10", replaces |-> "OLD"]],
            [kind |-> "file",
             c |-> [name |-> "FA", mime_types |-> << "app/a" >>, parser |-> "P1",
                    replaces |-> "FOLD"]] >>
    ELSE IF file = <<"x", "sub", "b.hlto">>
    THEN << [kind |-> "protocol",
             c |-> [name |-> "BAR", proto |-> "UDP", ports |-> << >>,
                    parser_orig |-> "P10", parser_resp |-> "", replaces |-> "FOO"]] >>
    ELSE IF file = <<"y", "c.hlto">>
    THEN << [kind |-> "packet", c |-> [name |-> "PK", parser |-> "P10"]] >>
    ELSE << >>

\* The calls of a module's pre-init code, in order, on the record st of
\* the host managers and descriptor tables.
RECURSIVE RunPreInit(_, _, _)
RunPreInit(st, calls, version) ==
    IF calls = << >> THEN st
    ELSE LET call == Head(calls)
             next ==
                 IF call.kind = "protocol"
                 THEN LET r == registerProtocolAnalyzer(st.amgr, st.ptab, call.c)
                      IN  [st EXCEPT !.amgr = r.mgr, !.ptab = r.tab]
                 ELSE IF call.kind = "file"
                 THEN LET r == registerFileAnalyzer(st.fmgr, st.ftab, call.c, version)
                      IN  [st EXCEPT !.fmgr = r.mgr, !.ftab = r.tab]
                 ELSE LET r == registerPacketAnalyzer(st.kmgr, st.ktab, call.c)
                      IN  [st EXCEPT !.kmgr = r.mgr, !.ktab = r.tab]
         IN  RunPreInit(next, Tail(calls), version)

\* loadModule keyed by the path as spelled instead of its canonical form.
loadModule_by_spelling(st, path, version) ==
    LET cp == canonical(path) IN
    IF ~cp.ok THEN [st EXCEPT !.fatal = "filesystem_error"]
    ELSE IF path \in st.libraries THEN [st EXCEPT !.outcome = "duplicate"]
    ELSE LET st1 == [st EXCEPT !.libraries = @ \cup {path},
                               !.opened[cp.path] = @ + 1]
         IN  IF ~OpensAsModule(cp.path)
             THEN [st1 EXCEPT !.fatal = "could not open library"]
             ELSE RunPreInit([st1 EXCEPT !.outcome = "loaded"], ModuleCode(cp.path), version)

\* Plugin::loadModule(path) on st, the registry and the open counts with
\* the managers and tables the opened module's code registers into.
\* st.fatal names what ended the call ("" on a normal return): a fatalError,
\* or the filesystem_error canonical() throws for a path that resolves to
\* nothing, which the handler for EnvironmentError does not catch; st.outcome
\* is the branch a normal return took (what the debug log says).
loadModule(st, path, version) ==
    LET cp == canonical(path) IN
    IF ~cp.ok THEN [st EXCEPT !.fatal = "filesystem_error"]
    ELSE IF cp.path \in st.libraries THEN [st EXCEPT !.outcome = "duplicate"]
    ELSE LET st1 == [st EXCEPT !.libraries = @ \cup {cp.path},
                               !.opened[cp.path] = @ + 1]
         IN  IF ~OpensAsModule(cp.path)
             THEN [st1 EXCEPT !.fatal = "could not open library"]
             ELSE RunPreInit([st1 EXCEPT !.outcome = "loaded"], ModuleCode(cp.path), version)

(***************************************************************************)
(* Module discovery.  A string is the sequence of its lexemes: a path      *)
(* component, or one of the separators ":" and "/", or a blank " ".        *)
(***************************************************************************)
\* hilti::rt::split(s, sep): the pieces of s between the occurrences of sep.
RECURSIVE split(_, _)
split(s, sep) ==
    IF \A i \in 1..Len(s) : s[i] # sep THEN << s >>
    ELSE LET k == Min({i \in 1..Len(s) : s[i] = sep})
         IN  << SubSeq(s, 1, k - 1) >> \o split(SubSeq(s, k + 1, Len(s)), sep)

\* hilti::rt::trim(s): s without its leading and trailing blanks.
RECURSIVE trim(_)
trim(s) ==
    IF s = << >> THEN s
    ELSE IF Head(s) = " " THEN trim(Tail(s))
    ELSE IF s[Len(s)] = " " THEN trim(SubSeq(s, 1, Len(s) - 1))
    ELSE s

\* filesystem::path(s): the components of the path a string spells; a
\* component spelled with a blank inside names nothing in the file system.
PathOf(s) ==
    LET pieces == SelectSeq(split(s, "/"), LAMBDA p : p # << >>)
    IN  [i \in 1..Len(pieces) |-> IF Len(pieces[i]) = 1 THEN pieces[i][1] ELSE "?"]

\* filesystem::path::extension() of a file name: from the last dot on,
\* empty when the name has no dot or only a leading one.
Extension(name) ==
    CASE name \in {"a.hlto", "b.hlto", "c.hlto", "d.hlto", "bad.hlto", "a2.hlto",
                   "dangling.hlto", "missing.hlto"} -> ".hlto"
      [] name = "notes.txt" -> ".txt"
      [] name = "e.hlto.bak" -> ".bak"
      [] name = "m.spicy" -> ".spicy"
      [] name = "m.evt" -> ".evt"
      [] name = "m.hlt" -> ".hlt"
      [] name = "s.zeek" -> ".zeek"
      [] OTHER -> ""

\* filesystem::is_directory / is_regular_file: the status of what the path
\* resolves to, links followed; false when it resolves to nothing.
is_directory(path) == canonical(path).ok /\ canonical(path).path \in FsDirs

is_regular_file(path) == canonical(path).ok /\ canonical(path).path \in FsFiles

\* One order in which the entries of the file system can be listed; a
\* directory iteration yields the entries below the directory in the order
\* of the listing in force, which the platform chooses.
FsListing ==
    << <<"x">>, <<"x", "a.hlto">>, <<"x", "notes.txt">>, <<"x", "d.hlto">>, <<"x", "sub">>,
       <<"x", "sub", ".hlto">>, <<"x", "sub", "b.hlto">>, <<"y">>, <<"y", "a2.hlto">>,
       <<"y", "c.hlto">>, <<"y", "dangling.hlto">>, <<"y", "e.hlto.bak">>, <<"z">>,
       <<"z", "bad.hlto">> >>

Reverse(s) == [i \in 1..Len(s) |-> s[Len(s) + 1 - i]]

Listings == {FsListing, Reverse(FsListing)}

IsBelow(dir, p) == Len(p) > Len(dir) /\ SubSeq(p, 1, Len(dir)) = dir

\* filesystem::recursive_directory_iterator(dir): the paths of the entries
\* below dir, each spelled as dir followed by the entry's relative path.
recursive_directory_iterator(dir, listing) ==
    LET cd == canonical(dir).path
        below == SelectSeq(listing, LAMBDA p : IsBelow(cd, p))
    IN  [i \in 1..Len(below) |-> dir \o SubSeq(below[i], Len(cd) + 1, Len(below[i]))]

\* The loop over the entries of one directory (plugin.cc:671-674); a fatal
\* error in loadModule ends the process and with it the loop.
RECURSIVE LoadEntries(_, _, _)
LoadEntries(st, es, version) ==
    IF es = << >> \/ st.fatal # "" THEN st
    ELSE LET e == Head(es)
             next == IF is_regular_file(e) /\ Extension(e[Len(e)]) = ".hlto"
                     THEN loadModule(st, e, version)
                     ELSE st
         IN  LoadEntries(next, Tail(es), version)

\* The loop over the pieces of the path list (plugin.cc:659-675).
RECURSIVE SearchDirs(_, _, _, _)
SearchDirs(st, dirs, listing, version) ==
    IF dirs = << >> \/ st.fatal # "" THEN st
    ELSE LET trimmed_dir == trim(Head(dirs))
             next == IF trimmed_dir = << >> THEN st
                     ELSE IF ~is_directory(PathOf(trimmed_dir)) THEN st
                     ELSE LoadEntries(st,
                              recursive_directory_iterator(PathOf(trimmed_dir), listing),
                              version)
         IN  SearchDirs(next, Tail(dirs), listing, version)

\* searchModules that loads every regular file it finds.
searchModules_any_extension(st, paths, listing, version) ==
    LET RECURSIVE Each(_, _)
        Each(s, es) ==
            IF es = << >> \/ s.fatal # "" THEN s
            ELSE Each(IF is_regular_file(Head(es)) THEN loadModule(s, Head(es), version) ELSE s,
                      Tail(es))
        RECURSIVE Dirs(_, _)
        Dirs(s, dirs) ==
            IF dirs = << >> \/ s.fatal # "" THEN s
            ELSE Dirs(IF trim(Head(dirs)) # << >> /\ is_directory(PathOf(trim(Head(dirs))))
                      THEN Each(s, recursive_directory_iterator(PathOf(trim(Head(dirs))), listing))
                      ELSE s,
                      Tail(dirs))
    IN  Dirs(st, split(paths, ":"))

\* Plugin::searchModules(paths) on the plugin state st.
searchModules(st, paths, listing, version) ==
    SearchDirs(st, split(paths, ":"), listing, version)

\* autoDiscoverModules that searches the default directories as well when
\* the override is set.
autoDiscoverModules_no_override(st, env, module_dir, plugin_path, listing, version) ==
    LET st0 == IF env.set THEN searchModules(st, env.value, listing, version) ELSE st
    IN  searchModules(searchModules(st0, module_dir, listing, version),
                      plugin_path, listing, version)

\* Plugin::autoDiscoverModules(): env is what getenv("SPICY_MODULE_PATH")
\* gives (set is false for a null pointer), module_dir the configured
\* PluginModuleDirectory, plugin_path the host's zeek_plugin_path().
autoDiscoverModules(st, env, module_dir, plugin_path, listing, version) ==
    IF env.set /\ env.value # << >>
    THEN searchModules(st, env.value, listing, version)
    ELSE searchModules(searchModules(st, module_dir, listing, version),
                       plugin_path, listing, version)

\* HookLoadFile that answers -1 for source files instead of the fatal error.
hookLoadFile_sources_ignored(st, file, driver, version) ==
    IF driver.toolchain /\ driver.rc >= 0 THEN [st |-> st, ret |-> 1]
    ELSE IF Extension(file[Len(file)]) = ".hlto"
    THEN [st |-> loadModule(st, file, version), ret |-> 1]
    ELSE [st |-> st, ret |-> -1]

\* Plugin::HookLoadFile(type, file, resolved).  driver.toolchain says the
\* build has SPICY_HAVE_TOOLCHAIN, driver.rc is what the driver's hook
\* returns then; rc of the code is the value of the comparison, 1 or 0.
\* ret is the value returned when st.fatal is "".
hookLoadFile(st, file, driver, version) ==
    LET rc == IF driver.rc >= 0 THEN 1 ELSE 0
        ext == Extension(file[Len(file)])
    IN  IF driver.toolchain /\ rc # 0 THEN [st |-> st, ret |-> rc]
        ELSE IF ext = ".hlto" THEN [st |-> loadModule(st, file, version), ret |-> 1]
        ELSE IF ext \in {".spicy", ".evt", ".hlt"}
        THEN [st |-> [st EXCEPT !.fatal = "not compiled with JIT support"], ret |-> -1]
        ELSE [st |-> st, ret |-> -1]

(***************************************************************************)
(* Event identifiers.  The host's global scope holds one identifier per    *)
(* full name; an identifier has a value type ("none" until one is set)     *)
(* and an export mark, and `installs` counts the install_ID calls made     *)
(* for its name.                                                           *)
(***************************************************************************)
GLOBAL_MODULE_NAME == "GLOBAL"

\* The lexemes of an event name: its parts and the separators "::" between them.
NameLexemes(name) ==
    CASE name = "Mod::seen" -> << "Mod", "::", "seen" >>
      [] name = "Mod::fresh" -> << "Mod", "::", "fresh" >>
      [] OTHER -> << name >>

\* The host's full name of `name` looked up from module `mod`: a qualified
\* name, and any name of the global module, stands for itself.
make_full_var_name(mod, name) ==
    IF Len(NameLexemes(name)) > 1 \/ mod = GLOBAL_MODULE_NAME THEN name
    ELSE IF mod = "Mod" /\ name = "seen" THEN "Mod::seen"
    ELSE IF mod = "Mod" /\ name = "fresh" THEN "Mod::fresh"
    ELSE "?"

\* lookup_ID(name, mod, false, false, false): does the scope hold the identifier?
lookup_ID(ids, name, mod) ==
    LET full == make_full_var_name(mod, name)
    IN  full \in DOMAIN ids /\ ids[full].exists

\* install_ID(name, mod, false, true): a new exported identifier without a
\* type takes the place of its full name in the scope.
install_ID(ids, name, mod) ==
    [ids EXCEPT ![make_full_var_name(mod, name)] =
        [exists |-> TRUE, exported |-> TRUE, type |-> "none", installs |-> @.installs + 1]]

\* Plugin::registerEvent without the lookup: every call installs an identifier.
registerEvent_always_installs(events, ids, handlers, name) ==
    LET n == split(NameLexemes(name), "::")
        mod == IF Len(n) > 1 THEN n[1][1] ELSE GLOBAL_MODULE_NAME
    IN  [handlers |-> handlers \cup {name},
         events |-> events \cup {name},
         ids |-> install_ID(ids, name, mod)]

\* Plugin::registerEvent(name).
registerEvent(events, ids, handlers, name) ==
    LET n == split(NameLexemes(name), "::")
        mod == IF Len(n) > 1 THEN n[1][1] ELSE GLOBAL_MODULE_NAME
    IN  [handlers |-> handlers \cup {name},
         events |-> events \cup {name},
         ids |-> IF lookup_ID(ids, name, mod)
                 THEN [ids EXCEPT ![make_full_var_name(mod, name)].exported = TRUE]
                 ELSE install_ID(ids, name, mod)]

(***************************************************************************)
(* Inputs: the calls generated module code makes in phase 1, and the       *)
(* host as it stands when the plugin is constructed.                       *)
(***************************************************************************)
Call(op, type, enable, name) == [op |-> op, type |-> type, enable |-> enable, name |-> name]

ProtocolCalls ==
    { [name |-> "FOO", proto |-> "TCP", ports |-> << <<80, "TCP">> >>,
       parser_orig |-> "P1", parser_resp |-> "P10", replaces |-> "OLD"],
      [name |-> "FOO", proto |-> "UDP", ports |-> << >>,
       parser_orig |-> "P1", parser_resp |-> "", replaces |-> "NOPE"],
      [name |-> "FOO", proto |-> "ICMP", ports |-> << >>,
       parser_orig |-> "P1", parser_resp |-> "P1", replaces |-> "OLD"],
      [name |-> "BAR", proto |-> "TCP", ports |-> << >>,
       parser_orig |-> "", parser_resp |-> "P1", replaces |-> "OLD"],
      [name |-> "BAR", proto |-> "UDP", ports |-> << <<53, "UDP">> >>,
       parser_orig |-> "P10", parser_resp |-> "P", replaces |-> "FOO"],
      [name |-> "BAR", proto |-> "TCP", ports |-> << >>,
       parser_orig |-> "P", parser_resp |-> "P1", replaces |-> ""] }

FileCalls ==
    { [name |-> "FA", mime_types |-> << "app/a" >>, parser |-> "P1", replaces |-> "FOLD"],
      [name |-> "FA", mime_types |-> << >>, parser |-> "P", replaces |-> "NOFILE"],
      [name |-> "FA", mime_types |-> << >>, parser |-> "", replaces |-> ""] }

PacketCalls ==
    { [name |-> "PK", parser |-> "P10"],
      [name |-> "PK", parser |-> "P"],
      [name |-> "PK", parser |-> ""] }

EventNames == {"Mod::seen", "Mod::fresh", "plain"}

Running == phase \in {"pre", "post"}

\* Where a call leaves the process that stopped for the reason `fatal` ("" if
\* it returned): a fatalError aborts it, the filesystem_error of canonical()
\* is no EnvironmentError, passes the handler of loadModule and every caller
\* in the plugin, and reaches the host as an exception.
PhaseAfter(fatal, cur) ==
    IF fatal = "" THEN cur ELSE IF fatal = "filesystem_error" THEN "exception" ELSE "fatal"

RetAfter(fatal, returned) ==
    IF fatal = "" THEN returned ELSE IF fatal = "filesystem_error" THEN "exception" ELSE "fatal"

\* History of toggle pairs on a descriptor with a replacement target:
\* stage "enabled" after toggle(d, true), "disabled" after the toggle(d, false)
\* that follows it directly; `before` is the replaced analyzer's enabled
\* state before the pair, `replaces` its tag.
NoRoundTrip == [stage |-> "none", op |-> "", type |-> 0, replaces |-> 0, before |-> FALSE]

RoundTripAfter(rt, op, mgr, tab, type, enable, returned) ==
    IF returned /\ enable /\ VecAt(tab, type).replaces # NoTag
    THEN [stage |-> "enabled", op |-> op, type |-> type,
          replaces |-> VecAt(tab, type).replaces,
          before |-> mgr[VecAt(tab, type).replaces].enabled]
    ELSE IF returned /\ ~enable /\ rt.stage = "enabled" /\ rt.op = op /\ rt.type = type
    THEN [rt EXCEPT !.stage = "disabled"]
    ELSE NoRoundTrip

Init ==
    /\ phase = "pre"
    /\ fatal_reason = ""
    /\ analyzer_mgr \in {<< [name |-> "OLD", enabled |-> e] >> : e \in BOOLEAN}
    /\ file_mgr = << [name |-> "FOLD", enabled |-> TRUE] >>
    /\ packet_mgr = << [name |-> "ETHERNET", enabled |-> TRUE] >>
    /\ _protocol_analyzers_by_type = << >>
    /\ _file_analyzers_by_type = << >>
    /\ _packet_analyzers_by_type = << >>
    /\ _libraries = {}
    /\ opened = [f \in FsFiles |-> 0]
    /\ port_registry = {}
    /\ event_queue = << >>
    /\ mime_bindings = {}
    /\ _events = {}
    /\ zeek_ids = [n \in EventNames |->
                     IF n = "Mod::seen"
                     THEN [exists |-> TRUE, exported |-> FALSE, type |-> "event", installs |-> 0]
                     ELSE [exists |-> FALSE, exported |-> FALSE, type |-> "none", installs |-> 0]]
    /\ event_handlers = {}
    /\ ZEEK_VERSION_NUMBER \in {40000, 40100}
    /\ last_call = Call("none", 0, FALSE, "")
    /\ round_trip = NoRoundTrip
    /\ ret = "none"

loaderVars == <<_libraries, opened>>
eventVars == <<_events, zeek_ids, event_handlers>>
bindVars == <<port_registry, event_queue, mime_bindings>>

(***************************************************************************)
(* Actions: phase-1 registration calls.                                    *)
(***************************************************************************)
RegisterProtocolAnalyzer(c) ==
    /\ phase = "pre"
    /\ c.proto \in {"TCP", "UDP"} => c.name \notin ComponentNames(analyzer_mgr)
    /\ LET r == registerProtocolAnalyzer(analyzer_mgr, _protocol_analyzers_by_type, c)
       IN  /\ analyzer_mgr' = r.mgr
           /\ _protocol_analyzers_by_type' = r.tab
           /\ ret' = IF r.stored THEN "stored" ELSE "error"
    /\ last_call' = Call("registerProtocolAnalyzer", 0, FALSE, c.name)
    /\ round_trip' = NoRoundTrip
    /\ UNCHANGED <<phase, fatal_reason, file_mgr, packet_mgr, _file_analyzers_by_type,
                   _packet_analyzers_by_type, loaderVars, eventVars, bindVars,
                   ZEEK_VERSION_NUMBER>>

RegisterFileAnalyzer(c) ==
    /\ phase = "pre"
    /\ c.name \notin ComponentNames(file_mgr)
    /\ LET r == registerFileAnalyzer(file_mgr, _file_analyzers_by_type, c, ZEEK_VERSION_NUMBER)
       IN  /\ file_mgr' = r.mgr
           /\ _file_analyzers_by_type' = r.tab
           /\ ret' = IF r.stored THEN "stored" ELSE "error"
    /\ last_call' = Call("registerFileAnalyzer", 0, FALSE, c.name)
    /\ round_trip' = NoRoundTrip
    /\ UNCHANGED <<phase, fatal_reason, analyzer_mgr, packet_mgr, _protocol_analyzers_by_type,
                   _packet_analyzers_by_type, loaderVars, eventVars, bindVars,
                   ZEEK_VERSION_NUMBER>>

RegisterPacketAnalyzer(c) ==
    /\ phase = "pre"
    /\ c.name \notin ComponentNames(packet_mgr)
    /\ LET r == registerPacketAnalyzer(packet_mgr, _packet_analyzers_by_type, c)
       IN  /\ packet_mgr' = r.mgr
           /\ _packet_analyzers_by_type' = r.tab
           /\ ret' = IF r.stored THEN "stored" ELSE "error"
    /\ last_call' = Call("registerPacketAnalyzer", 0, FALSE, c.name)
    /\ round_trip' = NoRoundTrip
    /\ UNCHANGED <<phase, fatal_reason, analyzer_mgr, file_mgr, _protocol_analyzers_by_type,
                   _file_analyzers_by_type, loaderVars, eventVars, bindVars,
                   ZEEK_VERSION_NUMBER>>

\* Registrations on a host that hands out tag types in any order: the
\* component of the call gets the type `type`, which no component has yet.
RegisterProtocolAnalyzerAt(c, type) ==
    /\ phase = "pre"
    /\ c.name \notin ComponentNames(analyzer_mgr)
    /\ IF type > Len(analyzer_mgr) THEN TRUE ELSE analyzer_mgr[type] = FreeComponent
    /\ LET r == registerProtocolAnalyzerAt(analyzer_mgr, _protocol_analyzers_by_type, c, type)
       IN  /\ analyzer_mgr' = r.mgr
           /\ _protocol_analyzers_by_type' = r.tab
           /\ ret' = IF r.stored THEN "stored" ELSE "error"
    /\ last_call' = Call("registerProtocolAnalyzer", type, FALSE, c.name)
    /\ round_trip' = NoRoundTrip
    /\ UNCHANGED <<phase, fatal_reason, file_mgr, packet_mgr, _file_analyzers_by_type,
                   _packet_analyzers_by_type, loaderVars, eventVars, bindVars,
                   ZEEK_VERSION_NUMBER>>

RegisterFileAnalyzerAt(c, type) ==
    /\ phase = "pre"
    /\ c.name \notin ComponentNames(file_mgr)
    /\ IF type > Len(file_mgr) THEN TRUE ELSE file_mgr[type] = FreeComponent
    /\ LET r == registerFileAnalyzerAt(file_mgr, _file_analyzers_by_type, c,
                                       ZEEK_VERSION_NUMBER, type)
       IN  /\ file_mgr' = r.mgr
           /\ _file_analyzers_by_type' = r.tab
           /\ ret' = IF r.stored THEN "stored" ELSE "error"
    /\ last_call' = Call("registerFileAnalyzer", type, FALSE, c.name)
    /\ round_trip' = NoRoundTrip
    /\ UNCHANGED <<phase, fatal_reason, analyzer_mgr, packet_mgr, _protocol_analyzers_by_type,
                   _packet_analyzers_by_type, loaderVars, eventVars, bindVars,
                   ZEEK_VERSION_NUMBER>>

(***************************************************************************)
(* Actions: toggle calls, made by the host or by scripts at any time.      *)
(***************************************************************************)
BoolStr(b) == IF b THEN "true" ELSE "false"

ToggleProtocolAnalyzer(type, enable) ==
    /\ Running
    /\ LET r == toggleProtocolAnalyzer(analyzer_mgr, _protocol_analyzers_by_type, type, enable)
       IN  /\ analyzer_mgr' = r.mgr
           /\ ret' = BoolStr(r.ret)
           /\ round_trip' = RoundTripAfter(round_trip, "toggleProtocolAnalyzer",
                                           analyzer_mgr, _protocol_analyzers_by_type,
                                           type, enable, r.ret)
    /\ last_call' = Call("toggleProtocolAnalyzer", type, enable, "")
    /\ UNCHANGED <<phase, fatal_reason, file_mgr, packet_mgr, _protocol_analyzers_by_type,
                   _file_analyzers_by_type, _packet_analyzers_by_type, loaderVars, eventVars,
                   bindVars, ZEEK_VERSION_NUMBER>>

ToggleFileAnalyzer(type, enable) ==
    /\ Running
    /\ LET r == toggleFileAnalyzer(file_mgr, _file_analyzers_by_type, type, enable,
                                   ZEEK_VERSION_NUMBER)
       IN  /\ file_mgr' = r.mgr
           /\ ret' = BoolStr(r.ret)
           /\ round_trip' = RoundTripAfter(round_trip, "toggleFileAnalyzer",
                                           file_mgr, _file_analyzers_by_type,
                                           type, enable, r.ret)
           /\ phase' = IF r.fatal THEN "fatal" ELSE phase
           /\ fatal_reason' = IF r.fatal THEN "failed to lookup file analyzer component"
                              ELSE fatal_reason
    /\ last_call' = Call("toggleFileAnalyzer", type, enable, "")
    /\ UNCHANGED <<analyzer_mgr, packet_mgr, _protocol_analyzers_by_type,
                   _file_analyzers_by_type, _packet_analyzers_by_type, loaderVars, eventVars,
                   bindVars, ZEEK_VERSION_NUMBER>>

\* The packet toggle; when its read is out of bounds the call either
\* returns (false, on both paths after the read) or the process dies on
\* the read.
TogglePacketAnalyzer(type, enable) ==
    /\ Running
    /\ LET r == togglePacketAnalyzer(_protocol_analyzers_by_type, _packet_analyzers_by_type,
                                     type, enable)
       IN  \E crash \in (IF r.out_of_bounds THEN BOOLEAN ELSE {FALSE}) :
               /\ ret' = IF crash THEN "crash" ELSE BoolStr(r.ret)
               /\ phase' = IF crash THEN "crashed" ELSE phase
    /\ last_call' = Call("togglePacketAnalyzer", type, enable, "")
    /\ round_trip' = NoRoundTrip
    /\ UNCHANGED <<fatal_reason, analyzer_mgr, file_mgr, packet_mgr,
                   _protocol_analyzers_by_type, _file_analyzers_by_type,
                   _packet_analyzers_by_type, loaderVars, eventVars, bindVars,
                   ZEEK_VERSION_NUMBER>>

\* Enum types a tag value handed to the generic toggle can belong to.
TagKinds == {"protocol", "file", "packet", "other"}

\* The generic toggle on a tag value, as scripts call it.
ToggleEnumVal(kind, type, enable) ==
    /\ Running
    /\ LET r == toggleEnumVal(analyzer_mgr, file_mgr, _protocol_analyzers_by_type,
                              _file_analyzers_by_type, [kind |-> kind, type |-> type],
                              enable, ZEEK_VERSION_NUMBER)
       IN  /\ analyzer_mgr' = r.amgr
           /\ file_mgr' = r.fmgr
           /\ ret' = BoolStr(r.ret)
           /\ phase' = IF r.fatal THEN "fatal" ELSE phase
           /\ fatal_reason' = IF r.fatal THEN "failed to lookup file analyzer component"
                              ELSE fatal_reason
    /\ last_call' = Call("toggleEnumVal", type, enable, kind)
    /\ round_trip' = NoRoundTrip
    /\ UNCHANGED <<packet_mgr, _protocol_analyzers_by_type, _file_analyzers_by_type,
                   _packet_analyzers_by_type, loaderVars, eventVars, bindVars,
                   ZEEK_VERSION_NUMBER>>

(***************************************************************************)
(* Action: phase 2, run once by the host after its scripts are loaded.     *)
(***************************************************************************)
InitPostScript ==
    /\ phase = "pre"
    /\ LET ps0 == [fatal |-> "", amgr |-> analyzer_mgr, fmgr |-> file_mgr,
                   ptab |-> _protocol_analyzers_by_type, ftab |-> _file_analyzers_by_type,
                   ktab |-> _packet_analyzers_by_type, ports |-> port_registry,
                   queue |-> event_queue]
           ps == PacketLoop(FileLoop(ProtocolLoop(ps0, 1), 1), 1)
       IN  /\ zeek_ids' = SetDummyTypes(zeek_ids, _events)
           /\ _protocol_analyzers_by_type' = ps.ptab
           /\ _file_analyzers_by_type' = ps.ftab
           /\ _packet_analyzers_by_type' = ps.ktab
           /\ port_registry' = ps.ports
           /\ event_queue' = ps.queue
           /\ event_handlers' = IF ps.queue = event_queue THEN event_handlers
                                ELSE event_handlers \cup {"spicy_analyzer_for_mime_type"}
           /\ phase' = IF ps.fatal = "" THEN "post" ELSE "fatal"
           /\ fatal_reason' = ps.fatal
           /\ ret' = IF ps.fatal = "" THEN "done" ELSE "fatal"
    /\ last_call' = Call("InitPostScript", 0, FALSE, "")
    /\ round_trip' = NoRoundTrip
    /\ UNCHANGED <<analyzer_mgr, file_mgr, packet_mgr, loaderVars, _events, mime_bindings,
                   ZEEK_VERSION_NUMBER>>

(***************************************************************************)
(* Action: a load request for a module file, from discovery or from the    *)
(* load-file hook, while the host is still loading (before phase 2).       *)
(***************************************************************************)
LoadPaths ==
    { <<"x", "a.hlto">>, <<"x", ".", "a.hlto">>, <<"x", "sub", "..", "a.hlto">>,
      <<"y", "a2.hlto">>, <<"x", "sub", "b.hlto">>, <<"y", "..", "x", "sub", "b.hlto">>,
      <<"y", "c.hlto">>, <<"z", "bad.hlto">>, <<"y", "dangling.hlto">>,
      <<"x", "missing.hlto">> }

PluginState ==
    [fatal |-> "", outcome |-> "", libraries |-> _libraries, opened |-> opened,
     amgr |-> analyzer_mgr, fmgr |-> file_mgr, kmgr |-> packet_mgr,
     ptab |-> _protocol_analyzers_by_type, ftab |-> _file_analyzers_by_type,
     ktab |-> _packet_analyzers_by_type]

LoadModule(path) ==
    /\ phase = "pre"
    /\ \A f \in FsFiles : opened[f] < MaxOpens
    /\ LET st == loadModule(PluginState, path, ZEEK_VERSION_NUMBER)
       IN  /\ _libraries' = st.libraries
           /\ opened' = st.opened
           /\ analyzer_mgr' = st.amgr
           /\ file_mgr' = st.fmgr
           /\ packet_mgr' = st.kmgr
           /\ _protocol_analyzers_by_type' = st.ptab
           /\ _file_analyzers_by_type' = st.ftab
           /\ _packet_analyzers_by_type' = st.ktab
           /\ phase' = PhaseAfter(st.fatal, phase)
           /\ fatal_reason' = st.fatal
           /\ ret' = RetAfter(st.fatal, st.outcome)
    /\ last_call' = [Call("loadModule", 0, FALSE, "") EXCEPT !.name = path[Len(path)]]
    /\ round_trip' = NoRoundTrip
    /\ UNCHANGED <<eventVars, bindVars, ZEEK_VERSION_NUMBER>>

(***************************************************************************)
(* Actions: module discovery, run from InitPreScript while the host is     *)
(* still starting up.                                                      *)
(***************************************************************************)
\* Path lists a search is asked to go through.
SearchLists ==
    << << "x" >>,
       << " ", "x", " ", ":", ":", "n", ":", "x", "/", "notes.txt", ":", "x", " ", "y" >>,
       << "y", ":", " ", ":", "x", "/", "sub" >>,
       << >>,
       << "z" >>,
       << "x", "/", "sub", "/", ".." >> >>

\* spicy::zeek::configuration::PluginModuleDirectory and zeek_plugin_path().
PluginModuleDirectory == << "x", "/", "sub" >>

zeek_plugin_path == << "y", ":", "x" >>

\* What getenv("SPICY_MODULE_PATH") can give.
EnvValues ==
    << [set |-> FALSE, value |-> << >>],
       [set |-> TRUE, value |-> << >>],
       [set |-> TRUE, value |-> << "y" >>],
       [set |-> TRUE, value |-> << " ", "n", " ", ":" >>] >>

\* The plugin state st a loader call leaves behind becomes the next state.
InstallPluginState(st) ==
    /\ _libraries' = st.libraries
    /\ opened' = st.opened
    /\ analyzer_mgr' = st.amgr
    /\ file_mgr' = st.fmgr
    /\ packet_mgr' = st.kmgr
    /\ _protocol_analyzers_by_type' = st.ptab
    /\ _file_analyzers_by_type' = st.ftab
    /\ _packet_analyzers_by_type' = st.ktab
    /\ phase' = PhaseAfter(st.fatal, phase)
    /\ fatal_reason' = st.fatal

SearchModules(k, listing) ==
    /\ phase = "pre"
    /\ LET st == searchModules(PluginState, SearchLists[k], listing, ZEEK_VERSION_NUMBER)
       IN  /\ InstallPluginState(st)
           /\ ret' = RetAfter(st.fatal, "done")
    /\ last_call' = Call("searchModules", k, FALSE, "")
    /\ round_trip' = NoRoundTrip
    /\ UNCHANGED <<eventVars, bindVars, ZEEK_VERSION_NUMBER>>

AutoDiscoverModules(k, listing) ==
    /\ phase = "pre"
    /\ LET st == autoDiscoverModules(PluginState, EnvValues[k], PluginModuleDirectory,
                                     zeek_plugin_path, listing, ZEEK_VERSION_NUMBER)
       IN  /\ InstallPluginState(st)
           /\ ret' = RetAfter(st.fatal, "done")
    /\ last_call' = Call("autoDiscoverModules", k, FALSE, "")
    /\ round_trip' = NoRoundTrip
    /\ UNCHANGED <<eventVars, bindVars, ZEEK_VERSION_NUMBER>>

\* Files the host asks the hook about, and the builds and driver answers.
HookFiles ==
    { <<"x", "a.hlto">>, <<"y", "a2.hlto">>, <<"x", "missing.hlto">>, <<"z", "bad.hlto">>,
      <<"x", "m.spicy">>, <<"m.evt">>, <<"m.hlt">>, <<"x", "notes.txt">>,
      <<"x", "sub", ".hlto">>, <<"y", "e.hlto.bak">>, <<"s.zeek">> }

Drivers ==
    {[toolchain |-> FALSE, rc |-> -1]} \cup {[toolchain |-> TRUE, rc |-> r] : r \in {-1, 0, 1}}

IntStr(n) == CASE n = 1 -> "1" [] n = 0 -> "0" [] n = -1 -> "-1"

HookLoadFile(file, driver) ==
    /\ phase = "pre"
    /\ LET r == hookLoadFile(PluginState, file, driver, ZEEK_VERSION_NUMBER)
       IN  /\ InstallPluginState(r.st)
           /\ ret' = RetAfter(r.st.fatal, IntStr(r.ret))
    /\ last_call' = Call("HookLoadFile", driver.rc, driver.toolchain, file[Len(file)])
    /\ round_trip' = NoRoundTrip
    /\ UNCHANGED <<eventVars, bindVars, ZEEK_VERSION_NUMBER>>

(***************************************************************************)
(* Actions: event registration by module code in phase 1, the host         *)
(* giving an event its type when a script defines a handler for it, and    *)
(* the host draining its event queue once phase 2 is over.                 *)
(***************************************************************************)
RegisterEvent(name) ==
    /\ phase = "pre"
    /\ zeek_ids[name].installs < MaxInstalls
    /\ LET r == registerEvent(_events, zeek_ids, event_handlers, name)
       IN  /\ _events' = r.events
           /\ zeek_ids' = r.ids
           /\ event_handlers' = r.handlers
    /\ last_call' = Call("registerEvent", 0, FALSE, name)
    /\ round_trip' = NoRoundTrip
    /\ ret' = "done"
    /\ UNCHANGED <<phase, fatal_reason, analyzer_mgr, file_mgr, packet_mgr,
                   _protocol_analyzers_by_type, _file_analyzers_by_type,
                   _packet_analyzers_by_type, loaderVars, bindVars,
                   ZEEK_VERSION_NUMBER>>

\* A script handler for a registered event gives its identifier the event type.
DefineHandler(name) ==
    /\ phase = "pre"
    /\ name \in _events
    /\ zeek_ids[name].type = "none"
    /\ zeek_ids' = [zeek_ids EXCEPT ![name].type = "event"]
    /\ last_call' = Call("defineHandler", 0, FALSE, name)
    /\ round_trip' = NoRoundTrip
    /\ ret' = "done"
    /\ UNCHANGED <<phase, fatal_reason, analyzer_mgr, file_mgr, packet_mgr,
                   _protocol_analyzers_by_type, _file_analyzers_by_type,
                   _packet_analyzers_by_type, loaderVars, bindVars,
                   _events, event_handlers, ZEEK_VERSION_NUMBER>>

\* The predefined handler of spicy_analyzer_for_mime_type runs on the
\* oldest queued event and binds its MIME type to its analyzer.
HostDispatchEvent ==
    /\ phase = "post"
    /\ event_queue # << >>
    /\ mime_bindings' = mime_bindings \cup {Head(event_queue)}
    /\ event_queue' = Tail(event_queue)
    /\ last_call' = Call("dispatchEvent", Head(event_queue)[1], FALSE, Head(event_queue)[2])
    /\ round_trip' = NoRoundTrip
    /\ ret' = "done"
    /\ UNCHANGED <<phase, fatal_reason, analyzer_mgr, file_mgr, packet_mgr,
                   _protocol_analyzers_by_type, _file_analyzers_by_type,
                   _packet_analyzers_by_type, loaderVars, eventVars,
                   port_registry, ZEEK_VERSION_NUMBER>>

\* File analyzers with MIME types of their own, of their parser, or both.
MimeFileCalls ==
    { [name |-> "FA", mime_types |-> << "app/a", "app/b" >>, parser |-> "P1", replaces |-> ""],
      [name |-> "FA", mime_types |-> << >>, parser |-> "P10", replaces |-> "FOLD"],
      [name |-> "FB", mime_types |-> << >>, parser |-> "P1", replaces |-> "FOLD"],
      [name |-> "FB", mime_types |-> << "app/a" >>, parser |-> "", replaces |-> ""] }

TagTypes == 0..MaxTagProbe

Next ==
    \/ \E c \in ProtocolCalls : RegisterProtocolAnalyzer(c)
    \/ \E c \in FileCalls : RegisterFileAnalyzer(c)
    \/ \E c \in PacketCalls : RegisterPacketAnalyzer(c)
    \/ \E t \in TagTypes, e \in BOOLEAN : ToggleProtocolAnalyzer(t, e)
    \/ \E t \in TagTypes, e \in BOOLEAN : ToggleFileAnalyzer(t, e)
    \/ InitPostScript

Spec == Init /\ [][Next]_vars

\* The boot sequence with module loading: modules are loaded (and register
\* their analyzers) before phase 2; toggles may come at any time.
NextLoad ==
    \/ \E path \in LoadPaths : LoadModule(path)
    \/ \E t \in TagTypes, e \in BOOLEAN : ToggleProtocolAnalyzer(t, e)
    \/ \E t \in TagTypes, e \in BOOLEAN : ToggleFileAnalyzer(t, e)
    \/ InitPostScript

SpecLoad == Init /\ [][NextLoad]_vars

\* Start-up with module discovery: searches, the automatic discovery and
\* the load-file hook run before phase 2.
NextDiscover ==
    \/ \E k \in 1..Len(SearchLists), listing \in Listings : SearchModules(k, listing)
    \/ \E k \in 1..Len(EnvValues), listing \in Listings : AutoDiscoverModules(k, listing)
    \/ \E file \in HookFiles, driver \in Drivers : HookLoadFile(file, driver)
    \/ InitPostScript

SpecDiscover == Init /\ [][NextDiscover]_vars

\* The analyzers a script toggles by tag value or the host by packet tag:
\* registrations of each kind, then toggles at any time.
NextScript ==
    \/ \E c \in {d \in ProtocolCalls : d.proto = "TCP" /\ d.replaces = "OLD"} :
           RegisterProtocolAnalyzer(c)
    \/ \E c \in {d \in FileCalls : d.parser # "P"} : RegisterFileAnalyzer(c)
    \/ \E c \in {d \in PacketCalls : d.parser = "P10"} : RegisterPacketAnalyzer(c)
    \/ \E t \in TagTypes, e \in BOOLEAN : TogglePacketAnalyzer(t, e)
    \/ \E k \in TagKinds, t \in TagTypes, e \in BOOLEAN : ToggleEnumVal(k, t, e)
    \/ InitPostScript

SpecScript == Init /\ [][NextScript]_vars

\* Tag types the host can hand out to a new component; type 1 is taken by
\* the built-in analyzer of each kind.
HostTypes == 2..MaxHostType

\* Registration on a host that hands out tag types in any order.
NextAnyType ==
    \/ \E c \in ProtocolCalls, type \in HostTypes : RegisterProtocolAnalyzerAt(c, type)
    \/ \E c \in FileCalls, type \in HostTypes : RegisterFileAnalyzerAt(c, type)
    \/ \E t \in TagTypes, e \in BOOLEAN : ToggleProtocolAnalyzer(t, e)
    \/ InitPostScript

SpecAnyType == Init /\ [][NextAnyType]_vars

\* Events: event registration and the MIME-type events of phase 2, with the
\* host defining handlers before phase 2 and draining its queue after it.
NextEvents ==
    \/ \E c \in MimeFileCalls : RegisterFileAnalyzer(c)
    \/ \E n \in EventNames : RegisterEvent(n)
    \/ \E n \in EventNames : DefineHandler(n)
    \/ InitPostScript
    \/ HostDispatchEvent

SpecEvents == Init /\ [][NextEvents]_vars

(***************************************************************************)
(* Properties.                                                             *)
(***************************************************************************)
\* Indices of the slots of a descriptor table that hold a stored descriptor.
SetSlots(tab) == {i \in 0..(VecSize(tab) - 1) : VecAt(tab, i).type # 0}

KnownParser(n) == \E k \in 1..Len(Parsers) : Parsers[k].name = n

hostVars == <<analyzer_mgr, file_mgr, packet_mgr>>
tableVars == <<_protocol_analyzers_by_type, _file_analyzers_by_type, _packet_analyzers_by_type>>

\* Steps of the entry points, recognised by the call they record.
LoadModuleStep(path) == last_call'.op = "loadModule" /\ LoadModule(path)

InitPostScriptStep == last_call'.op = "InitPostScript" /\ InitPostScript

RegisterProtocolStep(c) ==
    last_call'.op = "registerProtocolAnalyzer" /\ RegisterProtocolAnalyzer(c)

RegisterFileStep(c) == last_call'.op = "registerFileAnalyzer" /\ RegisterFileAnalyzer(c)

ToggleProtocolStep(t, e) ==
    last_call' = Call("toggleProtocolAnalyzer", t, e, "") /\ ToggleProtocolAnalyzer(t, e)

ToggleFileStep(t, e) ==
    last_call' = Call("toggleFileAnalyzer", t, e, "") /\ ToggleFileAnalyzer(t, e)

\* C1: every canonical path is opened at most once, and a loadModule call
\* whose path canonicalizes to a registered path opens nothing, runs no
\* registration and leaves the registry, the descriptor tables and the host
\* managers unchanged, however the path is spelled.
C1_LoadAtMostOnce ==
    [][\A path \in LoadPaths :
          LoadModuleStep(path) =>
            /\ \A f \in FsFiles : opened'[f] <= 1
            /\ _libraries' \subseteq FsFiles
            /\ (canonical(path).ok /\ canonical(path).path \in _libraries)
                 => /\ UNCHANGED <<_libraries, opened, hostVars, tableVars, phase>>
                    /\ ret' = "duplicate"]_vars

\* C1 witness: a duplicate request through the symbolic link, after the
\* module was loaded once and registered its analyzers.
C1_Witness ==
    /\ last_call.op = "loadModule"
    /\ last_call.name = "a2.hlto"
    /\ ret = "duplicate"
    /\ opened[<<"x", "a.hlto">>] = 1
    /\ _libraries = {<<"x", "a.hlto">>}
    /\ SetSlots(_protocol_analyzers_by_type) # {}

\* C2: before phase 2 has run, no descriptor of any table has a resolved
\* parser, whatever registrations and toggles have happened.
C2_UnresolvedBeforePhase2 ==
    phase = "pre" =>
        /\ \A k \in 1..Len(_protocol_analyzers_by_type) :
              /\ _protocol_analyzers_by_type[k].parser_orig = NoParser
              /\ _protocol_analyzers_by_type[k].parser_resp = NoParser
        /\ \A k \in 1..Len(_file_analyzers_by_type) :
              _file_analyzers_by_type[k].parser = NoParser
        /\ \A k \in 1..Len(_packet_analyzers_by_type) :
              _packet_analyzers_by_type[k].parser = NoParser

\* C2 witness: still in phase 1, with descriptors of all three kinds that
\* name known parsers, right after a successful toggle.
C2_Witness ==
    /\ phase = "pre"
    /\ last_call.op = "toggleProtocolAnalyzer" /\ ret = "true"
    /\ \E i \in SetSlots(_protocol_analyzers_by_type) :
          /\ KnownParser(VecAt(_protocol_analyzers_by_type, i).name_parser_orig)
          /\ KnownParser(VecAt(_protocol_analyzers_by_type, i).name_parser_resp)
    /\ \E i \in SetSlots(_file_analyzers_by_type) :
          KnownParser(VecAt(_file_analyzers_by_type, i).name_parser)
    /\ \E i \in SetSlots(_packet_analyzers_by_type) :
          KnownParser(VecAt(_packet_analyzers_by_type, i).name_parser)

\* A resolved parser field is right for its declared name: absent for the
\* empty name, otherwise the parser of exactly that name.
ResolvedAs(field, declared) ==
    IF declared = "" THEN field = NoParser
    ELSE field # NoParser /\ Parsers[field].name = declared

\* The analyzers registered in phase 1 are the host components that were
\* not there at construction (built-ins come first in each manager).
SpicyTags(mgr) == 2..Len(mgr)

\* C3: once phase 2 has completed without a fatal error, every analyzer
\* registered in phase 1 still has its descriptor at its tag type, and each
\* non-empty declared parser name (originator side, responder side, file,
\* packet) is resolved to the parser of exactly that name.
C3_ResolvedAfterPhase2 ==
    phase = "post" =>
        /\ \A t \in SpicyTags(analyzer_mgr) :
              /\ t \in SetSlots(_protocol_analyzers_by_type)
              /\ LET d == VecAt(_protocol_analyzers_by_type, t) IN
                 /\ d.name_analyzer = analyzer_mgr[t].name
                 /\ ResolvedAs(d.parser_orig, d.name_parser_orig)
                 /\ ResolvedAs(d.parser_resp, d.name_parser_resp)
        /\ \A t \in SpicyTags(file_mgr) :
              /\ t \in SetSlots(_file_analyzers_by_type)
              /\ LET d == VecAt(_file_analyzers_by_type, t) IN
                 /\ d.name_analyzer = file_mgr[t].name
                 /\ ResolvedAs(d.parser, d.name_parser)
        /\ \A t \in SpicyTags(packet_mgr) :
              /\ t \in SetSlots(_packet_analyzers_by_type)
              /\ LET d == VecAt(_packet_analyzers_by_type, t) IN
                 /\ d.name_analyzer = packet_mgr[t].name
                 /\ ResolvedAs(d.parser, d.name_parser)

\* C3 witness: phase 2 done with a protocol analyzer naming two different
\* parsers, and a file and a packet analyzer naming one each.
C3_Witness ==
    /\ phase = "post"
    /\ \E i \in SetSlots(_protocol_analyzers_by_type) :
          LET d == VecAt(_protocol_analyzers_by_type, i) IN
          /\ d.name_parser_orig = "P1" /\ d.name_parser_resp = "P10"
          /\ d.parser_orig # d.parser_resp
    /\ \E i \in SetSlots(_file_analyzers_by_type) :
          VecAt(_file_analyzers_by_type, i).parser # NoParser
    /\ \E i \in SetSlots(_packet_analyzers_by_type) :
          VecAt(_packet_analyzers_by_type, i).parser # NoParser

\* Some stored descriptor declares a non-empty parser name the runtime
\* does not know.
HasUnknownParserName ==
    \/ \E i \in SetSlots(_protocol_analyzers_by_type) :
          LET d == VecAt(_protocol_analyzers_by_type, i) IN
          \/ d.name_parser_orig # "" /\ ~KnownParser(d.name_parser_orig)
          \/ d.name_parser_resp # "" /\ ~KnownParser(d.name_parser_resp)
    \/ \E i \in SetSlots(_file_analyzers_by_type) :
          LET d == VecAt(_file_analyzers_by_type, i) IN
          d.name_parser # "" /\ ~KnownParser(d.name_parser)
    \/ \E i \in SetSlots(_packet_analyzers_by_type) :
          LET d == VecAt(_packet_analyzers_by_type, i) IN
          d.name_parser # "" /\ ~KnownParser(d.name_parser)

\* Every resolved-parser field whose declared name is empty is absent.
EmptyNamesAbsent ==
    /\ \A i \in SetSlots(_protocol_analyzers_by_type) :
          LET d == VecAt(_protocol_analyzers_by_type, i) IN
          /\ d.name_parser_orig = "" => d.parser_orig = NoParser
          /\ d.name_parser_resp = "" => d.parser_resp = NoParser
    /\ \A i \in SetSlots(_file_analyzers_by_type) :
          LET d == VecAt(_file_analyzers_by_type, i) IN
          d.name_parser = "" => d.parser = NoParser
    /\ \A i \in SetSlots(_packet_analyzers_by_type) :
          LET d == VecAt(_packet_analyzers_by_type, i) IN
          d.name_parser = "" => d.parser = NoParser

\* C4: phase 2 ends in the fatal internal error exactly when a stored
\* descriptor (of any kind) declares a non-empty parser name no parser has;
\* otherwise it completes, and an empty declared name leaves its
\* resolved-parser field absent either way.
C4_UnknownParserIsFatal ==
    [][InitPostScriptStep =>
          /\ HasUnknownParserName => (phase' = "fatal" /\ fatal_reason' = "unknown parser")
          /\ ~HasUnknownParserName => phase' = "post"
          /\ EmptyNamesAbsent']_vars

\* C4 witness: phase 2 aborted on a file analyzer's unknown parser name,
\* after resolving a protocol analyzer whose responder-side name is empty.
C4_Witness ==
    /\ phase = "fatal" /\ fatal_reason = "unknown parser"
    /\ last_call.op = "InitPostScript"
    /\ \E i \in SetSlots(_file_analyzers_by_type) :
          VecAt(_file_analyzers_by_type, i).name_parser = "P"
    /\ \E i \in SetSlots(_protocol_analyzers_by_type) :
          LET d == VecAt(_protocol_analyzers_by_type, i) IN
          /\ d.name_parser_resp = "" /\ d.parser_resp = NoParser
          /\ d.parser_orig # NoParser

\* The host manager a toggle entry point acts on.
ManagerOf(op) == IF op = "toggleProtocolAnalyzer" THEN analyzer_mgr ELSE file_mgr

\* C5 as claimed: after toggle(d, true) directly followed by toggle(d, false)
\* on a descriptor with a replacement target, the replaced analyzer's
\* enabled state equals its state before the pair.
C5_RoundTripRestores ==
    round_trip.stage = "disabled" =>
        ManagerOf(round_trip.op)[round_trip.replaces].enabled = round_trip.before

\* C5 amended: the pair leaves the replaced analyzer enabled and d disabled
\* whatever the state before, so the replaced analyzer's state equals its
\* state before the pair exactly when it was enabled then.
C5_RoundTripEnablesReplaced ==
    round_trip.stage = "disabled" =>
        LET mgr == ManagerOf(round_trip.op) IN
        /\ mgr[round_trip.replaces].enabled = TRUE
        /\ mgr[round_trip.type].enabled = FALSE
        /\ (mgr[round_trip.replaces].enabled = round_trip.before) <=> round_trip.before

\* C5 witness: a completed pair in phase 1 on a protocol analyzer whose
\* replaced analyzer was disabled before the pair (as registration left it).
C5_Witness ==
    /\ round_trip.stage = "disabled"
    /\ round_trip.op = "toggleProtocolAnalyzer"
    /\ round_trip.before = FALSE
    /\ phase = "pre"

\* Whether slot `type` of a table holds a stored descriptor.
SlotSet(tab, type) == type < VecSize(tab) /\ VecAt(tab, type).type # 0

\* The enabled states of a manager's components other than those in `except`
\* are the same after the step.
OthersKeep(mgr, mgrAfter, except) ==
    /\ Len(mgrAfter) = Len(mgr)
    /\ \A u \in 1..Len(mgr) : u \notin except => mgrAfter[u] = mgr[u]

\* C6: a protocol toggle (or a file toggle on a host from 4.1 on) of a tag
\* whose slot is set returns true, leaves the target's enabled state equal
\* to enable and, with a replacement reference stored, the replaced
\* analyzer's equal to ~enable; no other analyzer's state changes.
C6_ToggleSetsBoth ==
    [][\A t \in TagTypes, e \in BOOLEAN :
          /\ (ToggleProtocolStep(t, e) /\ SlotSet(_protocol_analyzers_by_type, t)) =>
                LET r == VecAt(_protocol_analyzers_by_type, t).replaces IN
                /\ ret' = "true"
                /\ analyzer_mgr'[t].enabled = e
                /\ r # NoTag => analyzer_mgr'[r].enabled = ~e
                /\ OthersKeep(analyzer_mgr, analyzer_mgr', {t} \cup ({r} \ {NoTag}))
                /\ UNCHANGED <<file_mgr, packet_mgr>>
          /\ (ToggleFileStep(t, e) /\ SlotSet(_file_analyzers_by_type, t)
                /\ ZEEK_VERSION_NUMBER >= 40100) =>
                LET r == VecAt(_file_analyzers_by_type, t).replaces IN
                /\ ret' = "true"
                /\ file_mgr'[t].enabled = e
                /\ r # NoTag => file_mgr'[r].enabled = ~e
                /\ OthersKeep(file_mgr, file_mgr', {t} \cup ({r} \ {NoTag}))
                /\ UNCHANGED <<analyzer_mgr, packet_mgr>>]_vars

\* C6 witness: a protocol analyzer with a replacement reference was just
\* disabled, which enabled the analyzer it replaces, while a second
\* registered analyzer kept its state.
C6_Witness ==
    /\ last_call.op = "toggleProtocolAnalyzer" /\ ~last_call.enable /\ ret = "true"
    /\ SlotSet(_protocol_analyzers_by_type, last_call.type)
    /\ VecAt(_protocol_analyzers_by_type, last_call.type).replaces # NoTag
    /\ analyzer_mgr[VecAt(_protocol_analyzers_by_type, last_call.type).replaces].enabled
    /\ ~analyzer_mgr[last_call.type].enabled
    /\ Len(analyzer_mgr) = 3

\* C7 as claimed: for every stored descriptor with a replacement
\* reference, exactly one of the analyzer and the analyzer it replaces is
\* enabled.
C7_ExactlyOneActive ==
    /\ \A i \in SetSlots(_protocol_analyzers_by_type) :
          LET r == VecAt(_protocol_analyzers_by_type, i).replaces IN
          r # NoTag => (analyzer_mgr[i].enabled # analyzer_mgr[r].enabled)
    /\ \A i \in SetSlots(_file_analyzers_by_type) :
          LET r == VecAt(_file_analyzers_by_type, i).replaces IN
          r # NoTag => (file_mgr[i].enabled # file_mgr[r].enabled)

\* C8: a protocol or file toggle of a tag without a set slot (type at or
\* beyond the table size, or the unset sentinel in the slot) returns false
\* and changes no analyzer's enabled state.
C8_UnknownTagUntouched ==
    [][\A t \in TagTypes, e \in BOOLEAN :
          /\ (ToggleProtocolStep(t, e) /\ ~SlotSet(_protocol_analyzers_by_type, t)) =>
                (ret' = "false" /\ UNCHANGED hostVars /\ phase' = phase)
          /\ (ToggleFileStep(t, e) /\ ~SlotSet(_file_analyzers_by_type, t)) =>
                (ret' = "false" /\ UNCHANGED hostVars /\ phase' = phase)]_vars

\* C8 witness: a toggle to disable the tag of a built-in analyzer, whose
\* slot exists in the table but is unset, was refused and the built-in is
\* still enabled; the tag beyond the table was refused before.
C8_Witness ==
    /\ last_call.op = "toggleProtocolAnalyzer" /\ ~last_call.enable /\ ret = "false"
    /\ last_call.type = 1
    /\ VecSize(_protocol_analyzers_by_type) > 1
    /\ VecAt(_protocol_analyzers_by_type, 1).type = 0
    /\ analyzer_mgr[1].enabled

\* C9: registering a protocol analyzer for TCP or UDP with a replaces name
\* the host has an enabled analyzer for ends with that analyzer disabled,
\* the new component registered and enabled, and the descriptor stored at
\* the new component's tag type with the replaced analyzer's tag as its
\* replacement reference.
C9_ReplaceExisting ==
    [][\A c \in ProtocolCalls :
          LET old == GetAnalyzerTag(analyzer_mgr, c.replaces)
              new == GetAnalyzerTag(analyzer_mgr', c.name)
          IN  (/\ RegisterProtocolStep(c)
               /\ c.proto \in {"TCP", "UDP"}
               /\ c.replaces # ""
               /\ old # NoTag
               /\ analyzer_mgr[old].enabled) =>
                 /\ ~analyzer_mgr'[old].enabled
                 /\ new # NoTag /\ new # old
                 /\ analyzer_mgr'[new].enabled
                 /\ SlotSet(_protocol_analyzers_by_type', new)
                 /\ VecAt(_protocol_analyzers_by_type', new).type = new
                 /\ VecAt(_protocol_analyzers_by_type', new).name_analyzer = c.name
                 /\ VecAt(_protocol_analyzers_by_type', new).replaces = old
                 /\ phase' = phase]_vars

\* C9 witness: FOO was just registered to replace the built-in OLD, which
\* is now disabled while FOO is enabled.
C9_Witness ==
    /\ last_call.op = "registerProtocolAnalyzer" /\ last_call.name = "FOO"
    /\ ret = "stored"
    /\ GetAnalyzerTag(analyzer_mgr, "FOO") = 2
    /\ VecAt(_protocol_analyzers_by_type, 2).replaces = GetAnalyzerTag(analyzer_mgr, "OLD")
    /\ VecAt(_protocol_analyzers_by_type, 2).name_replaces = "OLD"
    /\ ~analyzer_mgr[1].enabled /\ analyzer_mgr[2].enabled

\* C10: registering an analyzer whose non-empty replaces name matches no
\* host analyzer completes: the descriptor is stored without a replacement
\* reference, no host analyzer changes state and the process goes on; a
\* later toggle of that analyzer changes no state but its own.
C10_MissingTargetIsHarmless ==
    [][/\ \A c \in ProtocolCalls :
             LET new == GetAnalyzerTag(analyzer_mgr', c.name) IN
             (/\ RegisterProtocolStep(c)
              /\ c.proto \in {"TCP", "UDP"}
              /\ c.replaces # ""
              /\ GetAnalyzerTag(analyzer_mgr, c.replaces) = NoTag) =>
                /\ ret' = "stored" /\ phase' = phase
                /\ SlotSet(_protocol_analyzers_by_type', new)
                /\ VecAt(_protocol_analyzers_by_type', new).name_analyzer = c.name
                /\ VecAt(_protocol_analyzers_by_type', new).replaces = NoTag
                /\ SubSeq(analyzer_mgr', 1, Len(analyzer_mgr)) = analyzer_mgr
                /\ UNCHANGED <<file_mgr, packet_mgr>>
       /\ \A c \in FileCalls :
             LET new == GetAnalyzerTag(file_mgr', c.name) IN
             (/\ RegisterFileStep(c)
              /\ c.replaces # ""
              /\ GetAnalyzerTag(file_mgr, c.replaces) = NoTag) =>
                /\ ret' = "stored" /\ phase' = phase
                /\ SlotSet(_file_analyzers_by_type', new)
                /\ VecAt(_file_analyzers_by_type', new).name_analyzer = c.name
                /\ VecAt(_file_analyzers_by_type', new).replaces = NoTag
                /\ SubSeq(file_mgr', 1, Len(file_mgr)) = file_mgr
                /\ UNCHANGED <<analyzer_mgr, packet_mgr>>
       /\ \A t \in TagTypes, e \in BOOLEAN :
             /\ (/\ ToggleProtocolStep(t, e)
                 /\ SlotSet(_protocol_analyzers_by_type, t)
                 /\ VecAt(_protocol_analyzers_by_type, t).name_replaces # ""
                 /\ VecAt(_protocol_analyzers_by_type, t).replaces = NoTag) =>
                   /\ analyzer_mgr'[t].enabled = e
                   /\ OthersKeep(analyzer_mgr, analyzer_mgr', {t})
                   /\ UNCHANGED <<file_mgr, packet_mgr>>
             /\ (/\ ToggleFileStep(t, e)
                 /\ SlotSet(_file_analyzers_by_type, t)
                 /\ VecAt(_file_analyzers_by_type, t).name_replaces # ""
                 /\ VecAt(_file_analyzers_by_type, t).replaces = NoTag) =>
                   /\ OthersKeep(file_mgr, file_mgr', {t})
                   /\ UNCHANGED <<analyzer_mgr, packet_mgr>>]_vars

\* C10 witness: an analyzer registered to replace the missing NOPE was
\* just disabled by a toggle; the built-in OLD is still enabled.
C10_Witness ==
    /\ last_call.op = "toggleProtocolAnalyzer" /\ ~last_call.enable /\ ret = "true"
    /\ SlotSet(_protocol_analyzers_by_type, last_call.type)
    /\ VecAt(_protocol_analyzers_by_type, last_call.type).name_replaces = "NOPE"
    /\ VecAt(_protocol_analyzers_by_type, last_call.type).replaces = NoTag
    /\ ~analyzer_mgr[last_call.type].enabled
    /\ analyzer_mgr[1].enabled

\* All orders in which the members of the set S can be taken.
Orders(S) ==
    {o \in [1..Cardinality(S) -> S] : \A i, j \in 1..Cardinality(S) : o[i] = o[j] => i = j}

\* The plugin as constructed, with the built-in analyzer OLD enabled or not.
BootState(old_enabled) ==
    [fatal |-> "", outcome |-> "", libraries |-> {}, opened |-> [f \in FsFiles |-> 0],
     amgr |-> << [name |-> "OLD", enabled |-> old_enabled] >>,
     fmgr |-> << [name |-> "FOLD", enabled |-> TRUE] >>,
     kmgr |-> << [name |-> "ETHERNET", enabled |-> TRUE] >>,
     ptab |-> << >>, ftab |-> << >>, ktab |-> << >>]

\* The modules of order opened one after the other.
RECURSIVE LoadAll(_, _, _)
LoadAll(st, order, version) ==
    IF order = << >> THEN st
    ELSE LoadAll(loadModule(st, order[1], version), Tail(order), version)

\* Per analyzer name of a descriptor table: the name of the analyzer its
\* replacement reference points at ("" when it has none).
ReplacesByName(mgr, tab) ==
    {<<VecAt(tab, i).name_analyzer,
       IF VecAt(tab, i).replaces = NoTag THEN "" ELSE mgr[VecAt(tab, i).replaces].name>> :
        i \in SetSlots(tab)}

EnabledByName(mgr) == {<<mgr[t].name, mgr[t].enabled>> : t \in 1..Len(mgr)}

\* C11: phase 1 ends the same for every order in which the loaded modules
\* register: the registered analyzers and the replacement reference of each,
\* by name, are what every order of the same modules gives, and so is the
\* enabled state of every host analyzer.
C11_OrderIndependent ==
    phase # "fatal" =>
        /\ \A o \in Orders(_libraries) :
               LET st == LoadAll(BootState(TRUE), o, ZEEK_VERSION_NUMBER)
               IN  /\ ReplacesByName(analyzer_mgr, _protocol_analyzers_by_type)
                          = ReplacesByName(st.amgr, st.ptab)
                   /\ ReplacesByName(file_mgr, _file_analyzers_by_type)
                          = ReplacesByName(st.fmgr, st.ftab)
                   /\ ComponentNames(packet_mgr) = ComponentNames(st.kmgr)
        /\ \A e \in BOOLEAN : \A o1, o2 \in Orders(_libraries) :
               LET s1 == LoadAll(BootState(e), o1, ZEEK_VERSION_NUMBER)
                   s2 == LoadAll(BootState(e), o2, ZEEK_VERSION_NUMBER)
               IN  /\ EnabledByName(s1.amgr) = EnabledByName(s2.amgr)
                   /\ EnabledByName(s1.fmgr) = EnabledByName(s2.fmgr)
                   /\ EnabledByName(s1.kmgr) = EnabledByName(s2.kmgr)

SearchModulesStep(k, listing) ==
    last_call' = Call("searchModules", k, FALSE, "") /\ SearchModules(k, listing)

\* The directories a path list names: its pieces between colons that, with
\* the blanks around them removed, are not empty and name a directory.
DirsNamed(paths) ==
    {PathOf(trim(split(paths, ":")[i])) : i \in
        {j \in 1..Len(split(paths, ":")) :
            /\ trim(split(paths, ":")[j]) # << >>
            /\ is_directory(PathOf(trim(split(paths, ":")[j])))}}

\* The module files a search of the path list finds: the files that a
\* regular entry named *.hlto, at any depth below a named directory, is.
ModulesFound(paths) ==
    {f \in FsFiles :
        \E d \in DirsNamed(paths), p \in FsFiles \cup FsLinks :
            /\ IsBelow(canonical(d).path, p)
            /\ Extension(p[Len(p)]) = ".hlto"
            /\ canonical(p).ok /\ canonical(p).path = f}

\* C12: a search that returns has made the registry the registry before
\* plus exactly the module files found below the directories the path list
\* names, and has opened each of these that was new exactly once, whatever
\* the order the directories list their entries in; empty and non-directory
\* pieces and entries with another extension add nothing.  The search ends
\* the process only when a found module that is new cannot be opened.
C12_SearchLoadsFound ==
    [][\A k \in 1..Len(SearchLists), listing \in Listings :
          SearchModulesStep(k, listing) =>
              LET found == ModulesFound(SearchLists[k])
                  new == found \ _libraries
              IN  /\ (ret' = "done") <=> (\A f \in new : OpensAsModule(f))
                  /\ ret' = "done" =>
                        /\ _libraries' = _libraries \cup found
                        /\ \A f \in FsFiles :
                               opened'[f] = opened[f] + (IF f \in new THEN 1 ELSE 0)
                  /\ _libraries' \subseteq _libraries \cup found]_vars

\* A search of a list with a blank-padded directory, an empty piece, a
\* missing directory, a file and a name with a blank inside has returned,
\* with the two modules below x loaded and nothing else.
C12_Witness ==
    /\ last_call = Call("searchModules", 2, FALSE, "")
    /\ ret = "done"
    /\ _libraries = {<<"x", "a.hlto">>, <<"x", "sub", "b.hlto">>}
    /\ opened[<<"x", "a.hlto">>] = 1 /\ opened[<<"x", "notes.txt">>] = 0

AutoDiscoverModulesStep(k, listing) ==
    last_call' = Call("autoDiscoverModules", k, FALSE, "") /\ AutoDiscoverModules(k, listing)

\* Names of the protocol analyzers the code of a module file registers.
ProtocolsOf(file) ==
    {ModuleCode(file)[i].c.name :
        i \in {j \in 1..Len(ModuleCode(file)) : ModuleCode(file)[j].kind = "protocol"}}

\* C13: with the override variable set and not empty, automatic discovery
\* loads what a search of the override finds and nothing else, in
\* particular no module found only below the configured module directory
\* or the host's plugin path.  With the variable unset or empty it loads
\* what is found below the configured directory and the plugin path, the
\* configured directory first: the analyzers of a new module found there
\* are registered before those of a new module found only on the plugin
\* path.
C13_OverrideOrDefaults ==
    [][\A k \in 1..Len(EnvValues), listing \in Listings :
          AutoDiscoverModulesStep(k, listing) /\ ret' = "done" =>
              LET env == EnvValues[k]
                  configured == ModulesFound(PluginModuleDirectory)
                  hosts == ModulesFound(zeek_plugin_path)
              IN  IF env.set /\ env.value # << >>
                  THEN /\ _libraries' = _libraries \cup ModulesFound(env.value)
                       /\ \A f \in (configured \cup hosts) \ ModulesFound(env.value) :
                              /\ opened'[f] = opened[f]
                              /\ f \in _libraries' => f \in _libraries
                  ELSE /\ _libraries' = _libraries \cup configured \cup hosts
                       /\ \A f1 \in configured \ _libraries,
                             f2 \in (hosts \ configured) \ _libraries :
                              \A n1 \in ProtocolsOf(f1), n2 \in ProtocolsOf(f2) :
                                  GetAnalyzerTag(analyzer_mgr', n1)
                                      < GetAnalyzerTag(analyzer_mgr', n2)]_vars

\* Discovery has run with the override naming directory y while nothing
\* was loaded: the modules below y are loaded (a.hlto through the link),
\* b.hlto of the configured directory is not.
C13_Witness ==
    /\ last_call = Call("autoDiscoverModules", 3, FALSE, "")
    /\ ret = "done"
    /\ _libraries = {<<"x", "a.hlto">>, <<"y", "c.hlto">>}
    /\ <<"x", "sub", "b.hlto">> \in ModulesFound(PluginModuleDirectory)
    /\ opened[<<"x", "sub", "b.hlto">>] = 0

TogglePacketStep(t, e) ==
    last_call' = Call("togglePacketAnalyzer", t, e, "") /\ TogglePacketAnalyzer(t, e)

ToggleEnumValStep(k, t, e) ==
    last_call' = Call("toggleEnumVal", t, e, k) /\ ToggleEnumVal(k, t, e)

\* C14: the packet toggle returns false for every tag and both values of
\* enable, in every state, and changes no host analyzer's enabled state.
C14_PacketToggleIsFalse ==
    [][\A t \in TagTypes, e \in BOOLEAN :
          TogglePacketStep(t, e) => ret' = "false" /\ UNCHANGED hostVars]_vars

\* C15: the generic toggle does what the toggle of the value's kind does
\* and nothing else: a protocol tag value acts as the protocol toggle on
\* the protocol manager alone, a file tag value as the file toggle on the
\* file manager alone, a packet tag value returns false and leaves the
\* protocol and file managers alone, and so does a value of any other type.
C15_DispatchByKind ==
    [][\A k \in TagKinds, t \in TagTypes, e \in BOOLEAN :
          ToggleEnumValStep(k, t, e) =>
              /\ packet_mgr' = packet_mgr
              /\ k = "protocol" =>
                     /\ file_mgr' = file_mgr
                     /\ analyzer_mgr' = toggleProtocolAnalyzer(analyzer_mgr,
                            _protocol_analyzers_by_type, t, e).mgr
                     /\ ret' = BoolStr(toggleProtocolAnalyzer(analyzer_mgr,
                            _protocol_analyzers_by_type, t, e).ret)
              /\ k = "file" =>
                     /\ analyzer_mgr' = analyzer_mgr
                     /\ file_mgr' = toggleFileAnalyzer(file_mgr, _file_analyzers_by_type,
                            t, e, ZEEK_VERSION_NUMBER).mgr
                     /\ ret' = BoolStr(toggleFileAnalyzer(file_mgr, _file_analyzers_by_type,
                            t, e, ZEEK_VERSION_NUMBER).ret)
              /\ k \in {"packet", "other"} =>
                     /\ ret' = "false"
                     /\ analyzer_mgr' = analyzer_mgr
                     /\ file_mgr' = file_mgr]_vars

HookLoadFileStep(file, driver) ==
    /\ last_call' = Call("HookLoadFile", driver.rc, driver.toolchain, file[Len(file)])
    /\ HookLoadFile(file, driver)

\* C16: in a build without the toolchain the load-file hook has one of
\* three outcomes, chosen by the file's extension: for .hlto it does what
\* loadModule does with the file and returns 1; for .spicy, .evt and .hlt
\* it ends in the fatal error about missing JIT support; for any other
\* extension it returns -1 and changes neither the registry nor the
\* descriptor tables (nor anything else).
C16_HookByExtension ==
    [][\A file \in HookFiles, driver \in Drivers :
          HookLoadFileStep(file, driver) /\ ~driver.toolchain =>
              LET ext == Extension(file[Len(file)])
                  st == loadModule(PluginState, file, ZEEK_VERSION_NUMBER)
              IN  /\ ext = ".hlto" =>
                         /\ InstallPluginState(st)
                         /\ ret' = RetAfter(st.fatal, "1")
                  /\ ext \in {".spicy", ".evt", ".hlt"} =>
                         /\ ret' = "fatal" /\ phase' = "fatal"
                         /\ fatal_reason' = "not compiled with JIT support"
                         /\ UNCHANGED <<loaderVars, tableVars, hostVars>>
                  /\ ext \notin {".hlto", ".spicy", ".evt", ".hlt"} =>
                         /\ ret' = "-1"
                         /\ UNCHANGED <<phase, fatal_reason, loaderVars, tableVars, hostVars,
                                        eventVars, bindVars>>]_vars

\* The hook of a build without the toolchain has been asked about a.hlto
\* through the link a2.hlto and returned 1 with the module loaded.
C16_Witness ==
    /\ last_call = Call("HookLoadFile", -1, FALSE, "a2.hlto")
    /\ ret = "1"
    /\ <<"x", "a.hlto">> \in _libraries
    /\ GetAnalyzerTag(analyzer_mgr, "FOO") # NoTag

RegisterProtocolAtStep(c, type) ==
    /\ last_call' = Call("registerProtocolAnalyzer", type, FALSE, c.name)
    /\ RegisterProtocolAnalyzerAt(c, type)

RegisterFileAtStep(c, type) ==
    /\ last_call' = Call("registerFileAnalyzer", type, FALSE, c.name)
    /\ RegisterFileAnalyzerAt(c, type)

\* What storing at index n must leave of the table tab: at least n + 1
\* entries, every descriptor stored before at its index, unchanged, and the
\* unset sentinel in every slot the store created besides n.
StorePreserves(tab, after, n, dflt) ==
    /\ VecSize(after) >= n + 1
    /\ \A i \in SetSlots(tab) \ {n} : i < VecSize(after) /\ VecAt(after, i) = VecAt(tab, i)
    /\ \A i \in VecSize(tab)..(VecSize(after) - 1) : i # n => VecAt(after, i) = dflt

\* C17: a registration that stores its descriptor at the tag type the host
\* handed out keeps every descriptor stored earlier, whatever the order of
\* the types handed out, a smaller one after a larger one included.
C17_StoreKeepsEarlier ==
    [][/\ \A c \in ProtocolCalls, n \in HostTypes :
              RegisterProtocolAtStep(c, n) /\ ret' = "stored" =>
                  StorePreserves(_protocol_analyzers_by_type, _protocol_analyzers_by_type',
                                 n, DefaultProtocolAnalyzerInfo)
       /\ \A c \in FileCalls, n \in HostTypes :
              RegisterFileAtStep(c, n) =>
                  StorePreserves(_file_analyzers_by_type, _file_analyzers_by_type',
                                 n, DefaultFileAnalyzerInfo)]_vars

\* The tag type t belongs to a component that a registration of the plugin
\* created (type 1 is the host's built-in analyzer).
RegisteredAt(mgr, t) == t \in 2..Len(mgr) /\ mgr[t] # FreeComponent

\* C18: a slot counts as set, for the toggle and for phase 2, exactly when
\* a phase-1 registration stored a descriptor at its index: the slots that
\* pass the tests of the code (index below the table size, type field not
\* zero) are the tag types of the registered components, a toggle returns
\* true exactly for these, and after phase 2 each of them has its parser
\* names resolved.
C18_SetIffStored ==
    /\ \A t \in 0..MaxHostType :
           /\ SlotSet(_protocol_analyzers_by_type, t) <=> RegisteredAt(analyzer_mgr, t)
           /\ SlotSet(_file_analyzers_by_type, t) <=> RegisteredAt(file_mgr, t)
    /\ last_call.op = "toggleProtocolAnalyzer" =>
           ((ret = "true") <=> RegisteredAt(analyzer_mgr, last_call.type))
    /\ phase = "post" =>
           \A t \in 0..MaxHostType :
               RegisteredAt(analyzer_mgr, t) =>
                   /\ t < VecSize(_protocol_analyzers_by_type)
                   /\ LET d == VecAt(_protocol_analyzers_by_type, t)
                      IN  /\ d.parser_orig = find_parser(d.name_parser_orig).p
                          /\ d.parser_resp = find_parser(d.name_parser_resp).p

\* C19: a registerProtocolAnalyzer call rejected for its transport
\* protocol has no effect: no component is created, no descriptor is
\* stored, the process goes on, and every host analyzer, the one named as
\* replaces target included, is enabled or disabled as before the call.
C19_RejectedHasNoEffect ==
    [][\A c \in ProtocolCalls :
          RegisterProtocolStep(c) /\ c.proto \notin {"TCP", "UDP"} =>
              /\ ret' = "error"
              /\ phase' = phase
              /\ UNCHANGED <<hostVars, tableVars>>]_vars

\* The replacement reference stored in the slot of tag type t, NoTag for a
\* slot that is not set.
DirectReplaces(tab, t) == IF SlotSet(tab, t) THEN VecAt(tab, t).replaces ELSE NoTag

\* C20: a protocol or file toggle changes at most the enabled state of its
\* target and of the one analyzer stored as the target's replacement
\* reference.  The descriptor tables, the module registry, the event
\* identifier table, the other managers and every other analyzer of the
\* same manager stay as they are; in particular the analyzer that the
\* replaced analyzer itself replaces is not touched.
C20_ToggleFrame ==
    [][\A t \in TagTypes, e \in BOOLEAN :
          /\ ToggleProtocolStep(t, e) =>
                /\ OthersKeep(analyzer_mgr, analyzer_mgr',
                              {t, DirectReplaces(_protocol_analyzers_by_type, t)})
                /\ \A u \in 1..Len(analyzer_mgr) : analyzer_mgr'[u].name = analyzer_mgr[u].name
                /\ UNCHANGED <<file_mgr, packet_mgr, tableVars, loaderVars, eventVars,
                               bindVars, phase>>
          /\ ToggleFileStep(t, e) =>
                /\ OthersKeep(file_mgr, file_mgr',
                              {t, DirectReplaces(_file_analyzers_by_type, t)})
                /\ \A u \in 1..Len(file_mgr) : file_mgr'[u].name = file_mgr[u].name
                /\ UNCHANGED <<analyzer_mgr, packet_mgr, tableVars, loaderVars, eventVars,
                               bindVars, phase>>]_vars

\* An analyzer t that replaces r, which in turn replaces r2, was just
\* enabled: r is disabled and r2, disabled since r was registered, still is.
C20_Witness ==
    /\ last_call.op = "toggleProtocolAnalyzer" /\ last_call.enable /\ ret = "true"
    /\ LET t == last_call.type
           r == DirectReplaces(_protocol_analyzers_by_type, t)
           r2 == DirectReplaces(_protocol_analyzers_by_type, r)
       IN  /\ r # NoTag /\ r2 # NoTag /\ r2 \notin {t, r}
           /\ analyzer_mgr[t].enabled
           /\ ~analyzer_mgr[r].enabled
           /\ ~analyzer_mgr[r2].enabled

\* The host's port registrations for the analyzer with tag t.
PortsOf(t) == {<<pr[2], pr[3]>> : pr \in {q \in port_registry : q[1] = t}}

\* What a descriptor calls for: its declared ports, and the ports its
\* responder-side parser declares for both sides or for the responder.
PortsCalledFor(d) ==
    {<<transport_protocol(d.ports[k]), d.ports[k][1]>> : k \in 1..Len(d.ports)}
    \cup (IF d.parser_resp = NoParser THEN {}
          ELSE {<<transport_protocol(e.port), e.port[1]>> :
                   e \in {Parsers[d.parser_resp].ports[k] :
                             k \in {j \in 1..Len(Parsers[d.parser_resp].ports) :
                                       Parsers[d.parser_resp].ports[j].direction
                                           \in {"Both", "Responder"}}}})

\* C21: after phase 2 the ports a protocol analyzer is registered for with
\* the host are exactly its declared ports and the ports its resolved
\* responder-side parser declares with direction both or responder; before
\* phase 2 no port is registered.
C21_PortsRegistered ==
    /\ phase = "pre" => port_registry = {}
    /\ phase = "post" =>
           /\ \A t \in SetSlots(_protocol_analyzers_by_type) :
                  PortsOf(t) = PortsCalledFor(VecAt(_protocol_analyzers_by_type, t))
           /\ \A pr \in port_registry : pr[1] \in SetSlots(_protocol_analyzers_by_type)

\* Phase 2 is done for an analyzer with no declared port whose responder
\* side is parser P1: it is registered for P1's port 443 (both sides) and
\* not for P1's port 8443 (originator); and for an analyzer whose
\* originator side alone is P1, with none of P1's ports registered.
C21_Witness ==
    /\ phase = "post"
    /\ \E t \in SetSlots(_protocol_analyzers_by_type) :
           LET d == VecAt(_protocol_analyzers_by_type, t)
           IN  /\ d.ports = << >> /\ d.parser_resp # NoParser
               /\ Parsers[d.parser_resp].name = "P1"
               /\ PortsOf(t) = {<<"TRANSPORT_TCP", 443>>}
    /\ \E t \in SetSlots(_protocol_analyzers_by_type) :
           LET d == VecAt(_protocol_analyzers_by_type, t)
           IN  /\ d.parser_orig # NoParser /\ d.parser_resp = NoParser
               /\ PortsOf(t) = {}

(***************************************************************************)
(* C22: MIME-type registration goes through the host's event queue.        *)
(***************************************************************************)
\* The events owed to the file analyzers of a table from vector element i
\* on: per set element, its declared MIME types, then those of its parser.
RECURSIVE MimeEventsFrom(_, _, _)
MimeEventsFrom(tab, mgr, i) ==
    IF i >= VecSize(tab) THEN << >>
    ELSE LET d == VecAt(tab, i)
             tag == GetAnalyzerTag(mgr, d.name_analyzer)
             declared == [k \in 1..Len(d.mime_types) |-> <<tag, d.mime_types[k]>>]
             pmts == IF d.parser = NoParser THEN << >> ELSE Parsers[d.parser].mime_types
             resolved == [k \in 1..Len(pmts) |-> <<tag, pmts[k]>>]
         IN  (IF d.type = 0 THEN << >> ELSE declared \o resolved)
                \o MimeEventsFrom(tab, mgr, i + 1)

\* C22: a phase 2 that completes appends to the host's event queue, for each
\* registered file analyzer in table order, one event per declared MIME type
\* and then one per MIME type of its resolved parser; phase 2 leaves the
\* host's MIME-type bindings as they are, and a binding appears only when
\* the host, after phase 2, processes the queued event that carries it.
C22_MimeEventsQueued ==
    [][/\ InitPostScriptStep =>
             /\ mime_bindings' = mime_bindings
             /\ phase' = "post" =>
                   event_queue' = event_queue \o
                       MimeEventsFrom(_file_analyzers_by_type', file_mgr', 0)
       /\ mime_bindings' # mime_bindings =>
             /\ phase = "post" /\ last_call'.op = "dispatchEvent"
             /\ event_queue # << >>
             /\ mime_bindings' = mime_bindings \cup {Head(event_queue)}
             /\ event_queue' = Tail(event_queue)]_vars

\* C22 witness: phase 2 has just completed with two file analyzers; four
\* events (two declared types and a parser's type for one analyzer, a
\* parser's type for the other) wait in the queue and nothing is bound yet.
C22_Witness ==
    /\ phase = "post" /\ last_call.op = "InitPostScript"
    /\ Len(event_queue) = 4
    /\ event_queue[1][2] = "app/a" /\ event_queue[3][2] = "text/p1"
    /\ event_queue[4][1] # event_queue[1][1]
    /\ mime_bindings = {}

(***************************************************************************)
(* C23: every registered event has a value type once phase 2 is over.      *)
(***************************************************************************)
\* C23: phase 2 gives the dummy type to each identifier of the event table
\* that has no type, and leaves every other identifier as it is; so after
\* phase 2 has completed every identifier of the event table has a type,
\* whenever before phase 2 its event was registered.
C23_EventsTypedAfterPhase2 ==
    [][/\ InitPostScriptStep =>
             \A n \in DOMAIN zeek_ids :
                 zeek_ids'[n] = IF n \in _events /\ zeek_ids[n].type = "none"
                                THEN [zeek_ids[n] EXCEPT !.type = "dummy"]
                                ELSE zeek_ids[n]
       /\ phase' = "post" =>
             /\ _events' = _events
             /\ \A n \in _events' : zeek_ids'[n].exists /\ zeek_ids'[n].type # "none"]_vars

\* C23 witness: phase 2 is over; of three registered events one never got a
\* handler and has the dummy type, one got its type from a handler defined
\* after its registration, one had its type before it was registered.
C23_Witness ==
    /\ phase = "post"
    /\ _events = EventNames
    /\ zeek_ids["plain"].type = "dummy"
    /\ zeek_ids["Mod::fresh"].type = "event"
    /\ zeek_ids["Mod::seen"].type = "event"

(***************************************************************************)
(* C24: the event identifier table has one entry per event name.           *)
(***************************************************************************)
RegisterEventStep(n) == last_call'.op = "registerEvent" /\ RegisterEvent(n)

\* C24: registerEvent(name) leaves the table with exactly one entry for
\* name and changes no other identifier: an identifier the host already
\* has under that name is reused as it is and marked exported, otherwise a
\* new exported identifier without a type is installed; a name registered
\* before gets no second identifier and the table keeps its size.
C24_OneEntryPerName ==
    [][\A n \in EventNames : RegisterEventStep(n) =>
          /\ _events' = _events \cup {n}
          /\ \A m \in EventNames \ {n} : zeek_ids'[m] = zeek_ids[m]
          /\ zeek_ids[n].exists =>
                zeek_ids'[n] = [zeek_ids[n] EXCEPT !.exported = TRUE]
          /\ ~zeek_ids[n].exists =>
                zeek_ids'[n] = [exists |-> TRUE, exported |-> TRUE, type |-> "none",
                                installs |-> 1]
          /\ n \in _events =>
                /\ Cardinality(_events') = Cardinality(_events)
                /\ zeek_ids'[n] = zeek_ids[n]
          /\ \A m \in _events' :
                zeek_ids'[m].exists /\ zeek_ids'[m].exported /\ zeek_ids'[m].installs <= 1]_vars

\* C24 witness: an event installed by its first registration and typed by a
\* handler since has just been registered again, after an event whose
\* identifier the host had from the start.
C24_Witness ==
    /\ last_call = Call("registerEvent", 0, FALSE, "Mod::fresh")
    /\ zeek_ids["Mod::fresh"] = [exists |-> TRUE, exported |-> TRUE, type |-> "event",
                                 installs |-> 1]
    /\ zeek_ids["Mod::seen"] = [exists |-> TRUE, exported |-> TRUE, type |-> "event",
                                installs |-> 0]
    /\ _events = {"Mod::fresh", "Mod::seen"}

(***************************************************************************)
(* C25: how loadModule ends.                                               *)
(***************************************************************************)
\* C25: a loadModule call that returns has the canonical form of its path
\* in the registry, opened successfully once; a path that cannot be
\* canonicalized ends the process in the fatal state with the registry as
\* it was, and so does a module that canonicalizes but fails to open.
C25_LoadFailuresAreFatal ==
    [][\A path \in LoadPaths :
          LoadModuleStep(path) =>
              LET cp == canonical(path)
              IN  /\ phase' = "pre" =>
                        /\ cp.ok /\ cp.path \in _libraries'
                        /\ OpensAsModule(cp.path) /\ opened'[cp.path] = 1
                  /\ ~cp.ok => phase' = "fatal" /\ _libraries' = _libraries
                  /\ (cp.ok /\ ~OpensAsModule(cp.path)) => phase' = "fatal"]_vars

(***************************************************************************)
(* C26: the load-file hook of a build with the toolchain.                  *)
(***************************************************************************)
\* C26: in a build with the toolchain, when the driver's hook answers a
\* file with r >= 0 the plugin's hook returns r and does nothing else; when
\* the driver answers with a negative value the plugin's hook does what the
\* hook of a build without the toolchain does for the file's extension.
C26_DriverResultReturned ==
    [][\A file \in HookFiles, driver \in Drivers :
          HookLoadFileStep(file, driver) /\ driver.toolchain =>
              LET own == hookLoadFile(PluginState, file, [toolchain |-> FALSE, rc |-> -1],
                                      ZEEK_VERSION_NUMBER)
              IN  /\ driver.rc >= 0 =>
                        /\ ret' = IntStr(driver.rc)
                        /\ UNCHANGED <<phase, fatal_reason, loaderVars, tableVars, hostVars>>
                  /\ driver.rc < 0 =>
                        /\ InstallPluginState(own.st)
                        /\ ret' = RetAfter(own.st.fatal, IntStr(own.ret))]_vars

(***************************************************************************)
(* C27: what the packet toggle reads.                                      *)
(***************************************************************************)
\* C27: the packet toggle reads no descriptor table but the packet table,
\* and no element past the end of the table it reads, whatever the tag and
\* the sizes of the protocol and packet tables; so the call always returns.
C27_PacketToggleReadsPacketTable ==
    [][\A t \in TagTypes, e \in BOOLEAN :
          TogglePacketStep(t, e) =>
              LET r == togglePacketAnalyzer(_protocol_analyzers_by_type,
                                            _packet_analyzers_by_type, t, e)
              IN  /\ r.reads \in {"", "_packet_analyzers_by_type"}
                  /\ ~r.out_of_bounds
                  /\ phase' = phase]_vars

====
